---- MODULE Spec2Model ----
(***************************************************************************)
(* Model of services/audiopolicy/managerdefault/AudioPolicyManager.cpp:    *)
(* device selection, patch lifecycle, mute counters and capture            *)
(* concurrency.  The manager state is passed through the operators as one  *)
(* record S, each operator being the body of the method it is named        *)
(* after; the actions commit the record returned by a public entry point.  *)
(*                                                                         *)
(* Device masks are sets of device names (AUDIO_DEVICE_NONE is {}), a      *)
(* device descriptor is identified by its type name, handles are naturals  *)
(* with 0 for AUDIO_PATCH_HANDLE_NONE / AUDIO_IO_HANDLE_NONE.              *)
(***************************************************************************)
EXTENDS Integers, Sequences, FiniteSets, TLC

\* ------------------------------------------------------------------ bounds
NumTrackClients == 3
MaxPatchHandle == 4
MaxMuteCount == 2
MaxBeaconRef == 3
MaxInputs == 4
NumRecordClients == 4
NumPatchClients == 1

\* --------------------------------------------------------------- constants
NONE == 0
NoDevice == "none"
mUidCached == 1000
AppUids == {2001}

OutDevices == {"SPK", "HS", "EAR", "USB"}
InDevices == {"MIC", "SCOMIC", "SUBMIX"}

STRATEGY_NONE == "STRATEGY_NONE"
Strategies == <<"MEDIA", "PHONE", "SONIFICATION", "SONIFICATION_RESPECTFUL", "DTMF",
                "ENFORCED_AUDIBLE", "TRANSMITTED_THROUGH_SPEAKER", "ACCESSIBILITY",
                "REROUTING">>
StrategySet == {Strategies[i] : i \in 1..Len(Strategies)}

\* one stream type per routing strategy, in audio_stream_type_t order
Streams == <<"VOICE_CALL", "RING", "MUSIC", "NOTIFICATION", "ENFORCED_AUDIBLE",
             "DTMF", "TTS", "ACCESSIBILITY", "REROUTING">>
StreamSet == {Streams[i] : i \in 1..Len(Streams)}

PhoneStates == {"NORMAL", "RINGTONE", "IN_CALL", "IN_COMMUNICATION"}

\* ------------------------------------------------------------------- state
VARIABLES
    mOutputs,             \* io handle -> output descriptor
    tracks,               \* port id -> track client descriptor
    mInputs,              \* io handle -> input descriptor
    records,              \* port id -> record client descriptor
    mAudioPatches,        \* patch handle -> patch descriptor
    mAudioSources,        \* port id -> source client descriptor
    mAvailableOutputDevices,
    mAvailableInputDevices,
    nextUniqueId,         \* AudioPort::getNextUniqueId, the next patch handle
    phoneState,           \* mEngine->getPhoneState()
    forceUse,             \* mEngine->getForceUse(usage)
    mDeviceForStrategy,   \* per strategy device cache
    beacon,               \* mBeaconMuteRefCount, mBeaconPlayingRefCount, mBeaconMuted
    mLastVoiceVolume,
    mVolumeCurves,        \* stream -> device or default -> current volume index
    mA2dpSuspended,
    mCallRxPatch,
    mCallTxPatch,
    af,                   \* the transport: live patches, next handles it hands out
    lastOp,               \* the last entry point run, its argument and its result
    unmatched             \* (output, stream) -> mute requests not yet matched

vars == <<mOutputs, tracks, mInputs, records, mAudioPatches, mAudioSources,
          mAvailableOutputDevices, mAvailableInputDevices, nextUniqueId, phoneState,
          forceUse, mDeviceForStrategy, beacon, mLastVoiceVolume, mVolumeCurves,
          mA2dpSuspended,
          mCallRxPatch, mCallTxPatch, af, lastOp, unmatched>>

\* ------------------------------------------------ catalog and collaborators
\* output profiles: supported devices, module, latency; initialize() opens the
\* outputs of the profiles that are not direct.  Profile 3 is the direct output
\* of the MSD module, whose devices are available when the module is loaded.
\* Profile 4 is the output of the A2DP module, opened when the A2DP device is
\* connected
OutputIds == {1, 2, 3, 4}
MsdOutDevices == {"BUS"}
A2dpDevices == {"A2DP"}
MsdInDevice == "MSD_IN"
mPrimaryOutput == 1
FirstInput == 11
OutputProfile(o) ==
    CASE o = 1 -> [supported |-> {"SPK", "HS", "EAR"}, first |-> "SPK", module |-> 1,
                   latency |-> 20, direct |-> FALSE, flags |-> {"PRIMARY"},
                   format |-> "PCM_16"]
      [] o = 2 -> [supported |-> {"HS", "USB"}, first |-> "HS", module |-> 1,
                   latency |-> 50, direct |-> TRUE, flags |-> {"DIRECT"},
                   format |-> "PCM_16"]
      [] o = 4 -> [supported |-> A2dpDevices, first |-> "A2DP", module |-> 3,
                   latency |-> 50, direct |-> FALSE, flags |-> {},
                   format |-> "PCM_16"]
      [] OTHER -> [supported |-> MsdOutDevices, first |-> "BUS", module |-> 2,
                   latency |-> 50, direct |-> TRUE, flags |-> {"DIRECT"},
                   format |-> "PCM_16"]
supportedDevices(o) == OutputProfile(o).supported
latency(o) == OutputProfile(o).latency
sharesHwModuleWith(o1, o2) == OutputProfile(o1).module = OutputProfile(o2).module
mDefaultOutputDevice == "SPK"

\* mEngine->getStrategyForStream
getStrategy(stream) ==
    CASE stream = "VOICE_CALL" -> "PHONE"
      [] stream = "RING" -> "SONIFICATION"
      [] stream = "MUSIC" -> "MEDIA"
      [] stream = "NOTIFICATION" -> "SONIFICATION_RESPECTFUL"
      [] stream = "ENFORCED_AUDIBLE" -> "ENFORCED_AUDIBLE"
      [] stream = "DTMF" -> "DTMF"
      [] stream = "TTS" -> "TRANSMITTED_THROUGH_SPEAKER"
      [] stream = "ACCESSIBILITY" -> "ACCESSIBILITY"
      [] OTHER -> "REROUTING"

\* mEngine->getDeviceForStrategy: the engine is a collaborator, a fixed table of
\* the force-use configuration that gives every strategy its own device mask
EnginePreferredDevices(S, strategy) ==
    CASE strategy = "MEDIA" ->
             IF S.force["MEDIA"] = "SPEAKER" THEN {"SPK"} ELSE {"HS"}
      [] strategy = "PHONE" ->
             IF S.force["COMMUNICATION"] = "BT_SCO" THEN {"USB"} ELSE {"EAR"}
      [] strategy = "SONIFICATION" -> {"SPK", "HS"}
      [] strategy = "SONIFICATION_RESPECTFUL" -> {"HS", "EAR"}
      [] strategy = "DTMF" -> {"USB"}
      [] strategy = "ENFORCED_AUDIBLE" ->
             IF S.force["SYSTEM"] = "SYSTEM_ENFORCED" THEN {"SPK"} ELSE {"SPK", "USB"}
      [] strategy = "TRANSMITTED_THROUGH_SPEAKER" -> {"SPK", "EAR"}
      [] strategy = "ACCESSIBILITY" -> {"HS", "USB"}
      [] OTHER -> {"USB", "EAR"}

\* the engine selects among the available devices it was told of
\* (mEngine->setDeviceConnectionState), the default output device when none of
\* the strategy's devices is available
EngineDeviceForStrategy(S, strategy) ==
    IF EnginePreferredDevices(S, strategy) \cap S.availOut # {}
    THEN EnginePreferredDevices(S, strategy) \cap S.availOut
    ELSE {mDefaultOutputDevice} \cap S.availOut

is_state_in_call(state) == state \in {"IN_CALL", "IN_COMMUNICATION"}
isInCall(S) == is_state_in_call(S.phone)

\* ----------------------------------------------------------- small helpers
RECURSIVE SetToSeq(_)
SetToSeq(set) ==
    IF set = {} THEN << >>
    ELSE LET m == CHOOSE x \in set : \A y \in set : x <= y
         IN <<m>> \o SetToSeq(set \ {m})

Log(S, call) == [S EXCEPT !.calls = Append(@, call)]

\* Table(D, f): the function [x \in D |-> f[x]] as an explicit table of its
\* values, built entry by entry
RECURSIVE Table(_, _)
Table(D, f) ==
    IF D = {} THEN << >>
    ELSE LET x == CHOOSE y \in D : TRUE
         IN (x :> f[x]) @@ Table(D \ {x}, f)

\* The({e : v \in {x}}) is e with v naming the value of x: the statement that
\* yields x is run once, before the statements e that follow it
The(set) == CHOOSE r \in set : TRUE

\* statement sequencing: the state S that one statement leaves is evaluated
\* before the statements Rest that follow run on it
Do(S, Rest(_)) == The({Rest(T) : T \in {S}})

\* for (i = lo; i <= hi; i++) S = Step(S, i): the iterations a..b are run on T
\* in their order, those of the first half of the range before the others
ForEach(S, lo, hi, Step(_, _)) ==
    LET RECURSIVE run(_, _, _)
        run(T, a, b) ==
            IF a > b THEN T
            ELSE IF a = b THEN Step(T, a)
            ELSE The({run(U, (a + b) \div 2 + 1, b) : U \in {run(T, a, (a + b) \div 2)}})
    IN The({run(S0, lo, hi) : S0 \in {S}})

\* ---------------------------------------------------- descriptors (queries)
\* AudioOutputDescriptor::clientsList(activeOnly, strategy, preferredDeviceOnly),
\* in port id order
clientsList(S, o, activeOnly, strategy, preferredDeviceOnly) ==
    SetToSeq({p \in DOMAIN S.tracks :
        /\ S.tracks[p].output = o
        /\ (~activeOnly \/ S.tracks[p].active)
        /\ (strategy = STRATEGY_NONE \/ strategy = getStrategy(S.tracks[p].stream))
        /\ (~preferredDeviceOnly \/ S.tracks[p].pref # NoDevice)})

isStreamActive(S, o, stream) ==
    \E p \in DOMAIN S.tracks :
        S.tracks[p].output = o /\ S.tracks[p].active /\ S.tracks[p].stream = stream

streamActiveCount(S, o, stream) ==
    Cardinality({p \in DOMAIN S.tracks :
        S.tracks[p].output = o /\ S.tracks[p].active /\ S.tracks[p].stream = stream})

isActive(S, o) == \E i \in 1..Len(Streams) : isStreamActive(S, o, Streams[i])

isStrategyActive(S, o, strategy) ==
    \E i \in 1..Len(Streams) :
        /\ (getStrategy(Streams[i]) = strategy \/ strategy = STRATEGY_NONE)
        /\ isStreamActive(S, o, Streams[i])

isStrategyActiveOnSameModule(S, o, strategy) ==
    \E d \in DOMAIN S.outs : sharesHwModuleWith(o, d) /\ isStrategyActive(S, d, strategy)

\* DeviceVector::getDeviceFromId: the descriptor when the device is available
getDeviceFromId(devices, id) == IF id \in devices THEN id ELSE NoDevice

\* ------------------------------------------------------- device selection
\* a faulty findPreferredDevice(desc, ...) that takes the last client with a route
findPreferredDeviceIoLast(S, o, filter) ==
    The({[active |-> Len(activeClients) > 0,
          device |-> IF Len(activeClients) > 0
                        /\ Len(activeClients) = Len(activeClientsWithRoute)
                     THEN getDeviceFromId(S.availOut,
                              S.tracks[activeClientsWithRoute[Len(activeClientsWithRoute)]].pref)
                     ELSE NoDevice] :
         activeClients \in {clientsList(S, o, TRUE, STRATEGY_NONE, FALSE)},
         activeClientsWithRoute \in {clientsList(S, o, TRUE, filter, TRUE)}})

\* findPreferredDevice(desc, filter, active, devices)
findPreferredDeviceIo(S, o, filter) ==
    The({[active |-> Len(activeClients) > 0,
          device |-> IF Len(activeClients) > 0
                        /\ Len(activeClients) = Len(activeClientsWithRoute)
                     THEN getDeviceFromId(S.availOut,
                                          S.tracks[activeClientsWithRoute[1]].pref)
                     ELSE NoDevice] :
         activeClients \in {clientsList(S, o, TRUE, STRATEGY_NONE, FALSE)},
         activeClientsWithRoute \in {clientsList(S, o, TRUE, filter, TRUE)}})

\* findPreferredDevice(ioCollection, filter, devices): the loop over mOutputs
RECURSIVE findPreferredDeviceLoop(_, _, _, _)
findPreferredDeviceLoop(S, filter, outputs, device) ==
    IF outputs = << >> THEN device
    ELSE The({IF cur.active /\ cur.device = NoDevice THEN NoDevice
              ELSE findPreferredDeviceLoop(S, filter, Tail(outputs),
                       IF cur.device # NoDevice THEN cur.device ELSE device) :
              cur \in {findPreferredDeviceIo(S, Head(outputs), filter)}})

findPreferredDevice(S, filter) ==
    findPreferredDeviceLoop(S, filter, SetToSeq(DOMAIN S.outs), NoDevice)

getDeviceForStrategy(S, strategy, fromCache) ==
    The({IF deviceDesc # NoDevice THEN {deviceDesc}
         ELSE IF fromCache THEN S.cache[strategy]
         ELSE EngineDeviceForStrategy(S, strategy) :
         deviceDesc \in {findPreferredDevice(S, strategy)}})

updateDevicesAndOutputs(S) ==
    [S EXCEPT !.cache = [s \in StrategySet |-> getDeviceForStrategy(S, s, FALSE)]]

\* the strategy branch of getNewOutputDevice, its else-if chain in order
getNewOutputDeviceStrategy(S, o) ==
    IF isStrategyActive(S, o, "ENFORCED_AUDIBLE") /\ S.force["SYSTEM"] = "SYSTEM_ENFORCED"
        THEN "ENFORCED_AUDIBLE"
    ELSE IF isInCall(S) \/ isStrategyActiveOnSameModule(S, o, "PHONE") THEN "PHONE"
    ELSE IF isStrategyActiveOnSameModule(S, o, "SONIFICATION") THEN "SONIFICATION"
    ELSE IF isStrategyActive(S, o, "ENFORCED_AUDIBLE") THEN "ENFORCED_AUDIBLE"
    ELSE IF isStrategyActive(S, o, "ACCESSIBILITY") THEN "ACCESSIBILITY"
    ELSE IF isStrategyActive(S, o, "SONIFICATION_RESPECTFUL") THEN "SONIFICATION_RESPECTFUL"
    ELSE IF isStrategyActive(S, o, "MEDIA") THEN "MEDIA"
    ELSE IF isStrategyActive(S, o, "DTMF") THEN "DTMF"
    ELSE IF isStrategyActive(S, o, "TRANSMITTED_THROUGH_SPEAKER")
        THEN "TRANSMITTED_THROUGH_SPEAKER"
    ELSE IF isStrategyActive(S, o, "REROUTING") THEN "REROUTING"
    ELSE STRATEGY_NONE

getNewOutputDevice(S, o, fromCache) ==
    IF S.outs[o].patch \in DOMAIN S.patches /\ S.patches[S.outs[o].patch].mUid # mUidCached
    THEN S.outs[o].mDevice
    ELSE The({IF deviceDesc # NoDevice THEN {deviceDesc}
              ELSE IF strategy = STRATEGY_NONE THEN {}
              ELSE getDeviceForStrategy(S, strategy, fromCache) :
              deviceDesc \in {findPreferredDeviceIo(S, o, STRATEGY_NONE).device},
              strategy \in {getNewOutputDeviceStrategy(S, o)}})

\* ------------------------------------------------------- volume and mute
\* VolumeCurvesCollection::canBeMuted
canBeMuted(stream) == stream # "VOICE_CALL"
\* Volume::getDeviceForVolume(device): the one device that stands for a
\* combination in the volume tables: the speaker for no device and for a
\* combination with the speaker, no device for a combination of others (none of
\* the catalog's devices is an A2DP device)
AUDIO_DEVICE_OUT_DEFAULT_FOR_VOLUME == "DEFAULT"
getDeviceForVolume(device) ==
    IF device = {} THEN "SPK"
    ELSE IF Cardinality(device) > 1
         THEN IF "SPK" \in device THEN "SPK" ELSE "NONE"
         ELSE CHOOSE d \in device : TRUE

\* mVolumeCurves->hasVolumeIndexForDevice(stream, device)
hasVolumeIndexForDevice(S, stream, device) == device \in DOMAIN S.index[stream]

\* mVolumeCurves->getVolumeIndex(stream, device): the current index of the
\* stream for the device, its default index when the device has none
getVolumeIndex(S, stream, device) ==
    IF hasVolumeIndexForDevice(S, stream, getDeviceForVolume(device))
    THEN S.index[stream][getDeviceForVolume(device)]
    ELSE S.index[stream][AUDIO_DEVICE_OUT_DEFAULT_FOR_VOLUME]

\* computeVolume is a function of the stream, the index and the device category;
\* the devices of the catalog are all in one category of the volume curves
computeVolume(stream, index, device) == index

\* checkAndSetVolume: the voice volume sent after the stream volume
setVoiceVolume(S, stream, index, delayMs) ==
    IF stream = "VOICE_CALL" /\ index # S.lastVoice
    THEN Log([S EXCEPT !.lastVoice = index],
             [f |-> "setVoiceVolume", volume |-> index, delayMs |-> delayMs])
    ELSE S

\* checkAndSetVolume: "do not change in call volume if bluetooth is connected"
volumeRefused(S, stream) ==
    stream = "VOICE_CALL" /\ S.force["COMMUNICATION"] = "BT_SCO"

\* checkAndSetVolume past the test of the mute counter; the command sent to the
\* transport is logged with the mute counter it was sent under
checkAndSetVolumeUnmuted(S, stream, index, o, device, delayMs, force) ==
    IF volumeRefused(S, stream) THEN S
    ELSE LET dev == IF device = {} THEN S.outs[o].mDevice ELSE device
             volumeDb == computeVolume(stream, index, dev)
             \* SwAudioOutputDescriptor::setVolume
             changed == volumeDb # S.outs[o].mCurVolume[stream] \/ force
         IN setVoiceVolume(
                IF changed
                THEN Log([S EXCEPT !.outs[o].mCurVolume[stream] = volumeDb],
                         [f |-> "setStreamVolume", io |-> o, stream |-> stream,
                          volume |-> volumeDb, delayMs |-> delayMs,
                          count |-> S.outs[o].mMuteCount[stream]])
                ELSE S,
                stream, index, delayMs)

\* a faulty checkAndSetVolume that does not look at the mute counter
checkAndSetVolumeWhileMuted(S, stream, index, o, device, delayMs, force) ==
    checkAndSetVolumeUnmuted(S, stream, index, o, device, delayMs, force)

checkAndSetVolume(S, stream, index, o, device, delayMs, force) ==
    IF S.outs[o].mMuteCount[stream] # 0 THEN S
    ELSE checkAndSetVolumeUnmuted(S, stream, index, o, device, delayMs, force)

applyStreamVolumes(S, o, device, delayMs, force) ==
    ForEach(S, 1, Len(Streams),
            LAMBDA T, i : checkAndSetVolume(T, Streams[i], getVolumeIndex(T, Streams[i], device),
                                            o, device, delayMs, force))

\* the trace entry of a setStreamMute call that found the manager in S and left
\* it in T: the delay it was given, the counter it found, whether it changed the
\* manager's state and how many commands it sent; the volume that the output
\* has for the stream when the call returns, the volume of the stream's index
\* for the output's device and for the device that the call was given, and
\* whether checkAndSetVolume refuses a volume for the stream
traceStreamMute(S, T, stream, on, o, delayMs, dev) ==
    Log(T, [f |-> "setStreamMute", io |-> o, stream |-> stream, on |-> on,
            delayMs |-> delayMs,
            count |-> S.outs[o].mMuteCount[stream],
            changed |-> [T EXCEPT !.calls = S.calls] # S,
            sent |-> Len(T.calls) - Len(S.calls),
            volume |-> T.outs[o].mCurVolume[stream],
            current |-> computeVolume(stream, getVolumeIndex(T, stream, T.outs[o].mDevice),
                                      T.outs[o].mDevice),
            given |-> computeVolume(stream, getVolumeIndex(T, stream, dev), dev),
            refused |-> volumeRefused(T, stream)])

\* a faulty setStreamMute that decrements the counter without looking at it
setStreamMuteUnchecked(S, stream, on, o, delayMs, device) ==
    LET dev == IF device = {} THEN S.outs[o].mDevice ELSE device
        count == S.outs[o].mMuteCount[stream]
        S1 == [S EXCEPT !.outs[o].mMuteCount[stream] = @ - 1]
    IN traceStreamMute(
           S,
           IF on
           THEN [(IF count = 0 /\ canBeMuted(stream)
                     /\ (stream # "ENFORCED_AUDIBLE" \/ S.force["SYSTEM"] = "NONE")
                  THEN checkAndSetVolume(S, stream, 0, o, dev, delayMs, FALSE)
                  ELSE S) EXCEPT !.outs[o].mMuteCount[stream] = @ + 1]
           ELSE IF count - 1 = 0
                THEN checkAndSetVolume(S1, stream, getVolumeIndex(S1, stream, dev),
                                       o, dev, delayMs, FALSE)
                ELSE S1,
           stream, on, o, delayMs, dev)

setStreamMute(S, stream, on, o, delayMs, device) ==
    LET dev == IF device = {} THEN S.outs[o].mDevice ELSE device
        count == S.outs[o].mMuteCount[stream]
        S1 == [S EXCEPT !.outs[o].mMuteCount[stream] = @ - 1]
    IN traceStreamMute(
           S,
           IF on
           THEN [(IF count = 0 /\ canBeMuted(stream)
                     /\ (stream # "ENFORCED_AUDIBLE" \/ S.force["SYSTEM"] = "NONE")
                  THEN checkAndSetVolume(S, stream, 0, o, dev, delayMs, FALSE)
                  ELSE S) EXCEPT !.outs[o].mMuteCount[stream] = @ + 1]
           ELSE IF count = 0 THEN S
           ELSE IF count - 1 = 0
                THEN checkAndSetVolume(S1, stream, getVolumeIndex(S1, stream, dev),
                                       o, dev, delayMs, FALSE)
                ELSE S1,
           stream, on, o, delayMs, dev)

setStrategyMute(S, strategy, on, o, delayMs, device) ==
    ForEach(S, 1, Len(Streams),
            LAMBDA T, i : IF getStrategy(Streams[i]) = strategy
                          THEN setStreamMute(T, Streams[i], on, o, delayMs, device) ELSE T)

Max(a, b) == IF a > b THEN a ELSE b

\* checkDeviceMuteStrategies: "do tempMute only for current output": the
\* latency of an output on which the muted strategy is active is waited for
muteWaitFor(S, desc, strategy, mute) ==
    IF isStrategyActive(S, desc, strategy) /\ mute
    THEN [S EXCEPT !.ret = Max(@, latency(desc) * 2)] ELSE S

\* checkDeviceMuteStrategies: the inner loop over mOutputs for one strategy
muteStrategyOnOutputs(S, o, strategy, mute, delayMs) ==
    ForEach(S, 1, Cardinality(DOMAIN S.outs),
            LAMBDA T, n :
                IF supportedDevices(SetToSeq(DOMAIN S.outs)[n]) \cap supportedDevices(o) = {}
                THEN T
                ELSE muteWaitFor(setStrategyMute(T, strategy, mute, SetToSeq(DOMAIN S.outs)[n],
                                                 IF mute THEN 0 ELSE delayMs, {}),
                                 SetToSeq(DOMAIN S.outs)[n], strategy, mute))

\* checkDeviceMuteStrategies: one strategy of the loop, curDevice its device
checkDeviceMuteStep(S, o, strategy, curDevice, shouldMute, delayMs) ==
    LET device == S.outs[o].mDevice
        mute == shouldMute /\ (curDevice \cap device # {}) /\ curDevice # device
        muted == S.outs[o].mStrategyMutedByDevice[strategy]
    IN IF (mute /\ ~muted) \/ (~mute /\ muted)
       THEN muteStrategyOnOutputs(
                [S EXCEPT !.outs[o].mStrategyMutedByDevice[strategy] = mute],
                o, strategy, mute, delayMs)
       ELSE S

\* checkDeviceMuteStrategies: the loop over the strategies; S.ret is muteWaitMs
checkDeviceMuteLoop(S, o, shouldMute, delayMs) ==
    ForEach(S, 1, Len(Strategies),
            LAMBDA T, i :
                checkDeviceMuteStep(T, o, Strategies[i],
                                    getDeviceForStrategy(T, Strategies[i], FALSE)
                                        \cap supportedDevices(o),
                                    shouldMute, delayMs))

\* checkDeviceMuteStrategies: the temporary mute of the active strategies
tempMuteLoop(S, o, delayMs, device) ==
    ForEach(S, 1, Len(Strategies),
            LAMBDA T, i :
                IF isStrategyActive(T, o, Strategies[i])
                THEN The({setStrategyMute(T1, Strategies[i], FALSE, o,
                                          delayMs + latency(o) * 4, device) :
                          T1 \in {setStrategyMute(T, Strategies[i], TRUE, o, delayMs, {})}})
                ELSE T)

\* a faulty temporary mute that waits for an output that is not active
checkDeviceMuteWaitIdle(S, o, prevDevice, delayMs, device) ==
    IF device # prevDevice
    THEN tempMuteLoop([S EXCEPT !.ret = Max(@, latency(o) * 2)], o, delayMs, device)
    ELSE S

\* a faulty device change that waits without the temporary mute
checkDeviceMuteWaitUnmuted(S, o, prevDevice, delayMs, device) ==
    IF isActive(S, o) /\ device # prevDevice
    THEN [S EXCEPT !.ret = Max(@, latency(o) * 2)]
    ELSE S

\* checkDeviceMuteStrategies: the temporary mute and the wait returned
checkDeviceMuteWait(S, o, prevDevice, delayMs, device) ==
    IF isActive(S, o) /\ device # prevDevice
    THEN tempMuteLoop([S EXCEPT !.ret = Max(@, latency(o) * 2)], o, delayMs, device)
    ELSE S

checkDeviceMuteStrategies(S, o, prevDevice, delayMs) ==
    The({[S2 EXCEPT !.ret = IF @ > delayMs THEN @ - delayMs ELSE 0] :
         S2 \in {The({checkDeviceMuteWait(S1, o, prevDevice, delayMs, S.outs[o].mDevice) :
                      S1 \in {checkDeviceMuteLoop(
                                  [S EXCEPT !.ret = 0], o,
                                  isActive(S, o) /\ Cardinality(S.outs[o].mDevice) >= 2,
                                  delayMs)}})}})

\* ---------------------------------------------------------- patch lifecycle
NO_ERROR == "NO_ERROR"
BAD_VALUE == "BAD_VALUE"
INVALID_OPERATION == "INVALID_OPERATION"

\* the status that checkAndSetVolume returns
checkAndSetVolumeStatus(S, stream, o) ==
    IF S.outs[o].mMuteCount[stream] # 0 THEN NO_ERROR
    ELSE IF volumeRefused(S, stream) THEN INVALID_OPERATION
    ELSE NO_ERROR

\* mVolumeCurves->getVolumeIndexMin / getVolumeIndexMax: the ranges that
\* initStreamVolume was given
MaxVolumeIndex == 2
getVolumeIndexMin(stream) == IF stream = "VOICE_CALL" THEN 1 ELSE 0
getVolumeIndexMax(stream) == MaxVolumeIndex

streamsMatchForvolume(stream1, stream2) == stream1 = stream2

\* a faulty conversion that rounds to the nearest index
rescaleRounded(srcIndex, minSrc, maxSrc, minDst, maxDst) ==
    LET num == minDst * (maxSrc - minSrc) + (srcIndex - minSrc) * (maxDst - minDst)
        den == maxSrc - minSrc
    IN (2 * num + den) \div (2 * den)

\* (int)(minDst + ((srcIndex - minSrc) * (maxDst - minDst)) / (maxSrc - minSrc)):
\* the quotient of floats, truncated toward zero by the conversion to int
rescale(srcIndex, minSrc, maxSrc, minDst, maxDst) ==
    LET num == minDst * (maxSrc - minSrc) + (srcIndex - minSrc) * (maxDst - minDst)
        den == maxSrc - minSrc
    IN IF num >= 0 THEN num \div den ELSE -((-num) \div den)

\* rescaleVolumeIndex with the index ranges of the streams in ranges
rescaleVolumeIndexIn(ranges, srcIndex, srcStream, dstStream) ==
    IF srcStream = dstStream THEN srcIndex
    ELSE rescale(srcIndex, ranges[srcStream].min, ranges[srcStream].max,
                 ranges[dstStream].min, ranges[dstStream].max)

rescaleVolumeIndex(srcIndex, srcStream, dstStream) ==
    rescaleVolumeIndexIn([s \in StreamSet |-> [min |-> getVolumeIndexMin(s),
                                                max |-> getVolumeIndexMax(s)]],
                         srcIndex, srcStream, dstStream)

\* audio_is_output_device, of a device of the volume tables
audio_is_output_device(device) ==
    device \in OutDevices \cup MsdOutDevices \cup {AUDIO_DEVICE_OUT_DEFAULT_FOR_VOLUME}

\* the bits of a device of the volume tables
deviceBits(device) == IF device = "NONE" THEN {} ELSE {device}

\* setStreamVolumeIndex: the volume of one stream of one output
setStreamVolumeOn(S, stream, index, device, o, curStream) ==
    LET curDevice == deviceBits(getDeviceForVolume(S.outs[o].mDevice))
        curStreamDevice == deviceBits(getDeviceForVolume(
                               getDeviceForStrategy(S, getStrategy(curStream), FALSE)))
        applyVolume == IF device # AUDIO_DEVICE_OUT_DEFAULT_FOR_VOLUME
                       THEN curDevice \cap (curStreamDevice \cup {device}) # {}
                       ELSE \A d \in curStreamDevice :
                                ~hasVolumeIndexForDevice(S, stream, d)
        idx == rescaleVolumeIndex(index, stream, curStream)
    IN IF ~streamsMatchForvolume(stream, curStream) THEN S
       ELSE IF ~(isStreamActive(S, o, curStream) \/ isInCall(S)) THEN S
       ELSE IF device # AUDIO_DEVICE_OUT_DEFAULT_FOR_VOLUME
               /\ curStreamDevice \cap {device} = {} THEN S
       ELSE IF ~applyVolume THEN S
       ELSE [checkAndSetVolume(S, curStream, idx, o, curDevice, 0, FALSE)
                EXCEPT !.status = IF checkAndSetVolumeStatus(S, curStream, o) # NO_ERROR
                                  THEN checkAndSetVolumeStatus(S, curStream, o)
                                  ELSE @]

\* setStreamVolumeIndex: the streams of one output
setStreamVolumeOnOutput(S, stream, index, device, o) ==
    ForEach(S, 1, Len(Streams),
            LAMBDA T, i : setStreamVolumeOn(T, stream, index, device, o, Streams[i]))

setStreamVolumeIndex(S, stream, index, device) ==
    IF (index < getVolumeIndexMin(stream) /\ ~(stream = "VOICE_CALL" /\ index = 0))
       \/ index > getVolumeIndexMax(stream)
    THEN [S EXCEPT !.status = BAD_VALUE]
    ELSE IF ~audio_is_output_device(device) THEN [S EXCEPT !.status = BAD_VALUE]
    ELSE LET forced == IF canBeMuted(stream) THEN index ELSE getVolumeIndexMax(stream)
             \* addCurrentVolumeIndex of the streams that follow this one
             S1 == [S EXCEPT !.status = NO_ERROR,
                             !.index = [c \in StreamSet |->
                                 IF streamsMatchForvolume(stream, c)
                                 THEN (device :> forced) @@ @[c] ELSE @[c]]]
             outputs == SetToSeq(DOMAIN S.outs)
         IN ForEach(S1, 1, Len(outputs),
                LAMBDA T, i : setStreamVolumeOnOutput(T, stream, forced, device,
                                                      outputs[i]))
TRANSPORT_ERROR == "TRANSPORT_ERROR"

removeKey(f, k) == Table(DOMAIN f \ {k}, f)
addKey(f, k, v) == (k :> v) @@ f

is_virtual_input_device(device) == "SUBMIX" \in device

nextAudioPortGeneration(S) == [S EXCEPT !.gen = @ + 1]

\* mpClientInterface->createAudioPatch(patch, &afPatchHandle, delayMs): the
\* transport fails when the next oracle entry says so; it keeps the handle it is
\* given (update in place) and allocates one when given none.  S.ret is the
\* handle on return, S.status the status.
afCreateAudioPatch(S, patch, afPatchHandle, delayMs) ==
    LET ok == IF S.oracle = << >> THEN TRUE ELSE Head(S.oracle)
        S0 == Log([S EXCEPT !.oracle = IF @ = << >> THEN @ ELSE Tail(@)],
                  [f |-> "createAudioPatch", handle |-> afPatchHandle, patch |-> patch,
                   ok |-> ok])
    IN IF ~ok THEN [S0 EXCEPT !.status = TRANSPORT_ERROR, !.ret = afPatchHandle]
       ELSE IF afPatchHandle # NONE
       THEN [S0 EXCEPT !.status = NO_ERROR, !.ret = afPatchHandle,
                       !.af.live = @ \cup {afPatchHandle}]
       ELSE [S0 EXCEPT !.status = NO_ERROR, !.ret = S.af.next,
                       !.af.live = @ \cup {S.af.next}, !.af.next = @ + 1]

afReleaseAudioPatch(S, afPatchHandle, delayMs) ==
    Log([S EXCEPT !.af.live = @ \ {afPatchHandle}],
        [f |-> "releaseAudioPatch", handle |-> afPatchHandle])

\* the descriptor's open(): mpClientInterface->openOutput / openInput.  The next
\* entry of S.opens is the outcome: "fail" (an error status), "other" (opened
\* with a configuration that is not the one requested) or "ok"; S.ret is the
\* io handle on return, NONE after a failure
afOpen(S, io) ==
    LET outcome == IF S.opens = << >> THEN "ok" ELSE Head(S.opens)
        S0 == Log([S EXCEPT !.opens = IF @ = << >> THEN @ ELSE Tail(@)],
                  [f |-> "open", io |-> io, outcome |-> outcome])
    IN IF outcome = "fail" THEN [S0 EXCEPT !.status = TRANSPORT_ERROR, !.ret = NONE]
       ELSE [S0 EXCEPT !.status = NO_ERROR, !.ret = io, !.af.ios = @ \cup {io}]

\* the transport opens an output of a profile under the profile's number
afOpenOutput(S, profile) == afOpen(S, profile)

\* the transport numbers the inputs it opens
afOpenInput(S) ==
    The({IF T.ret = NONE THEN T ELSE [T EXCEPT !.af.nextIo = @ + 1] :
         T \in {afOpen(S, S.af.nextIo)}})

\* the descriptor's close(): mpClientInterface->closeOutput / closeInput
afClose(S, io) ==
    Log([S EXCEPT !.af.ios = @ \ {io}], [f |-> "close", io |-> io])

\* a faulty registry lookup that never finds the stream's patch
indexOfKeyNever(S, key) == FALSE

\* mAudioPatches.indexOfKey(...) >= 0 for the handle installPatch looks up
indexOfKey(S, key) == key \in DOMAIN S.patches

\* installPatch(caller, index, patchHandle, patch, delayMs, uid, patchDescPtr)
\* once the transport has answered: S is the state the transport call left
installPatchDone(S, found, key, patch, uid) ==
    LET h == IF found THEN key ELSE S.next
        desc == IF found
                THEN [S.patches[key] EXCEPT !.mPatch = patch, !.mAfPatchHandle = S.ret]
                ELSE [mPatch |-> patch, mUid |-> uid, mAfPatchHandle |-> S.ret]
    IN IF S.status = NO_ERROR
       THEN Log(nextAudioPortGeneration(
                    [S EXCEPT !.patches = addKey(@, h, desc),
                              !.next = IF found THEN @ ELSE @ + 1,
                              !.hnd = h, !.pd = h]),
                [f |-> "onAudioPatchListUpdate"])
       ELSE [S EXCEPT !.pd = IF found THEN key ELSE NONE]

\* installPatch(caller, index, patchHandle, patch, delayMs, uid, patchDescPtr):
\* key is the registry key index was taken from; S.hnd is *patchHandle and
\* S.pd the handle of *patchDescPtr
installPatchAt(S, key, patch, delayMs, uid) ==
    installPatchDone(
        afCreateAudioPatch(S, patch,
                           IF indexOfKey(S, key) THEN S.patches[key].mAfPatchHandle ELSE NONE,
                           delayMs),
        indexOfKey(S, key), key, patch, uid)

\* the trace entry of installPatch for a stream: whether the stream's current
\* patch handle cur was in the registry, the transport handle of that patch, the
\* transport handle handed to the transport and whether the registry gained an
\* entry
installPatchEntry(S, S1, io, cur, key) ==
    [f |-> "installPatch", io |-> io, attached |-> cur \in DOMAIN S.patches,
     afOld |-> IF cur \in DOMAIN S.patches THEN S.patches[cur].mAfPatchHandle ELSE NONE,
     afGiven |-> S1.calls[Len(S.calls) + 1].handle,
     gained |-> DOMAIN S1.patches # DOMAIN S.patches]

\* installPatch(caller, patchHandle, ioDescriptor, patch, delayMs) for an output
installPatchOutput(S, o, patch, delayMs) ==
    LET key == IF S.hnd # NONE THEN S.hnd ELSE S.outs[o].patch
    IN The({LET S2 == Log(S1, installPatchEntry(S, S1, o, S.outs[o].patch, key))
            IN IF S1.status = NO_ERROR THEN [S2 EXCEPT !.outs[o].patch = S1.pd] ELSE S2 :
            S1 \in {installPatchAt(S, key, patch, delayMs, mUidCached)}})

\* installPatch(caller, patchHandle, ioDescriptor, patch, delayMs) for an input
installPatchInput(S, i, patch, delayMs) ==
    LET key == IF S.hnd # NONE THEN S.hnd ELSE S.ins[i].patch
    IN The({LET S2 == Log(S1, installPatchEntry(S, S1, i, S.ins[i].patch, key))
            IN IF S1.status = NO_ERROR THEN [S2 EXCEPT !.ins[i].patch = S1.pd] ELSE S2 :
            S1 \in {installPatchAt(S, key, patch, delayMs, mUidCached)}})

resetOutputDevice(S, o, delayMs) ==
    LET key == S.outs[o].patch
    IN IF key \notin DOMAIN S.patches THEN [S EXCEPT !.status = INVALID_OPERATION]
       ELSE LET S1 == afReleaseAudioPatch(S, S.patches[key].mAfPatchHandle, delayMs)
            IN Log(nextAudioPortGeneration(
                       [S1 EXCEPT !.outs[o].patch = NONE, !.patches = removeKey(@, key),
                                  !.status = NO_ERROR]),
                   [f |-> "onAudioPatchListUpdate"])

resetInputDevice(S, i) ==
    LET key == S.ins[i].patch
    IN IF key \notin DOMAIN S.patches THEN [S EXCEPT !.status = INVALID_OPERATION]
       ELSE LET S1 == afReleaseAudioPatch(S, S.patches[key].mAfPatchHandle, 0)
            IN Log(nextAudioPortGeneration(
                       [S1 EXCEPT !.ins[i].patch = NONE, !.patches = removeKey(@, key),
                                  !.status = NO_ERROR]),
                   [f |-> "onAudioPatchListUpdate"])

\* setOutputDevice: "inform all input as well"
informInputs(S, device, delayMs) ==
    LET inputs == SetToSeq(DOMAIN S.ins)
    IN ForEach(S, 1, Len(inputs),
               LAMBDA T, n :
                   IF ~is_virtual_input_device(T.ins[inputs[n]].mDevice)
                   THEN Log(T, [f |-> "setParameters", io |-> inputs[n],
                                routing |-> device, delayMs |-> delayMs])
                   ELSE T)

\* a faulty filter that lets every requested device through
filterDevicesNone(o, device) == device

\* setOutputDevice: "filter devices according to output selected"
filterDevices(o, device) == device \cap supportedDevices(o)

\* a faulty routing guard that always changes the routing
sameRoutingNever(S, o, device, prevDevice, force) == FALSE

\* setOutputDevice: "Do not change the routing if: the requested device is
\* AUDIO_DEVICE_NONE OR the requested device is the same as current device AND
\* force is not specified AND the output is connected by a valid audio patch"
sameRouting(S, o, device, prevDevice, force) ==
    (device = {} \/ device = prevDevice) /\ ~force /\ S.outs[o].patch # NONE

\* setOutputDevice after the mute check: S.ret is muteWaitMs
setOutputDeviceRoute(S, o, device, prevDevice, force, delayMs) ==
    IF sameRouting(S, o, device, prevDevice, force) THEN S
    ELSE The({[applyStreamVolumes(T, o, device, delayMs, FALSE) EXCEPT !.ret = S.ret] :
              T \in {IF device = {} THEN resetOutputDevice(S, o, delayMs)
                     ELSE The({informInputs(S1, device, delayMs) :
                               S1 \in {IF device \cap S.availOut # {}
                                       THEN installPatchOutput(S, o,
                                                [kind |-> "mix2dev", mix |-> o,
                                                 src |-> NoDevice,
                                                 sinks |-> device \cap S.availOut],
                                                delayMs)
                                       ELSE S}})}})

\* setOutputDevice(outputDesc, device, force, delayMs, patchHandle, address,
\* requiresMuteCheck): S.hnd is *patchHandle (NONE for a null pointer), S.ret
\* the returned muteWaitMs
setOutputDevice(S, o, requested, force, delayMs, requiresMuteCheck) ==
    IF requested # {} /\ requested \cap supportedDevices(o) = {} THEN [S EXCEPT !.ret = 0]
    ELSE LET device == filterDevices(o, requested)
             S1 == IF device # {} THEN [S EXCEPT !.outs[o].mDevice = device] ELSE S
         IN The({setOutputDeviceRoute(S2, o, device, S.outs[o].mDevice, force, delayMs) :
                 S2 \in {IF requiresMuteCheck
                         THEN checkDeviceMuteStrategies(S1, o, S.outs[o].mDevice, delayMs)
                         ELSE [S1 EXCEPT !.ret = 0]}})

\* ------------------------------------------------------------ beacon mute
setBeaconMuteLoop(S, mute) ==
    LET outputs == SetToSeq(DOMAIN S.outs)
    IN ForEach(S, 1, Len(outputs),
               LAMBDA T, n : [setStreamMute(T, "TTS", mute, outputs[n], 0, {})
                                 EXCEPT !.ret = Max(T.ret, latency(outputs[n]) * 2)])

\* setBeaconMute: S.ret is the returned latency
setBeaconMute(S, mute) ==
    IF S.beacon.muted # mute
    THEN [setBeaconMuteLoop([S EXCEPT !.ret = 0], mute)
             EXCEPT !.beacon.muted = mute]
    ELSE [S EXCEPT !.ret = 0]

mTtsOutputAvailable == FALSE

handleEventForBeacon(S, event) ==
    IF mTtsOutputAvailable THEN [S EXCEPT !.ret = 0]
    ELSE LET S1 ==
                 CASE event = "STARTING_OUTPUT" -> [S EXCEPT !.beacon.muteRef = @ + 1]
                   [] event = "STOPPING_OUTPUT" ->
                          [S EXCEPT !.beacon.muteRef = IF @ > 0 THEN @ - 1 ELSE @]
                   [] event = "STARTING_BEACON" -> [S EXCEPT !.beacon.playRef = @ + 1]
                   [] OTHER -> [S EXCEPT !.beacon.playRef = IF @ > 0 THEN @ - 1 ELSE @]
         IN setBeaconMute(S1, IF S1.beacon.muteRef > 0 THEN TRUE
                              ELSE S1.beacon.playRef = 0)

\* ------------------------------------------------- moving strategies around
\* getOutputsForDevice(device, openOutputs)
getOutputsForDevice(device, openOutputs) ==
    {o \in openOutputs : device \cap supportedDevices(o) = device}

\* audio formats: linear PCM of 16, 24 and 32 bits, a compressed format, and
\* AUDIO_FORMAT_INVALID for a request that names no format
AUDIO_FORMAT_INVALID == "INVALID"
audio_is_linear_pcm(format) == format \in {"PCM_16", "PCM_24", "PCM_32"}
audio_bytes_per_sample(format) ==
    CASE format = "PCM_16" -> 2
      [] format = "PCM_24" -> 3
      [] format = "PCM_32" -> 4
      [] OTHER -> 0

\* AudioPort::isBetterFormatMatch(newFormat, currentFormat, targetFormat): the
\* new format is closer to the target than the current one, in bytes per
\* sample, the wider format winning at equal distance
isBetterFormatMatch(newFormat, currentFormat, targetFormat) ==
    LET dist(f) == IF audio_bytes_per_sample(targetFormat) >= audio_bytes_per_sample(f)
                   THEN audio_bytes_per_sample(targetFormat) - audio_bytes_per_sample(f)
                   ELSE audio_bytes_per_sample(f) - audio_bytes_per_sample(targetFormat)
    IN IF newFormat = currentFormat THEN FALSE
       ELSE IF currentFormat = AUDIO_FORMAT_INVALID THEN TRUE
       ELSE IF newFormat = targetFormat THEN TRUE
       ELSE IF dist(newFormat) < dist(currentFormat) THEN TRUE
       ELSE IF dist(newFormat) = dist(currentFormat)
       THEN audio_bytes_per_sample(newFormat) > audio_bytes_per_sample(targetFormat)
       ELSE FALSE

\* the flags and the format of the open outputs, which are those of their
\* profiles
OutputProfiles == [o \in OutputIds |-> OutputProfile(o)]

\* a faulty loop that does not skip the direct outputs
RECURSIVE selectOutputLoopDirect(_, _, _, _, _)
selectOutputLoopDirect(profiles, outputs, flags, format, acc) ==
    IF outputs = << >> THEN acc
    ELSE LET output == Head(outputs)
             mFormat == profiles[output].format
             commonFlags == Cardinality(profiles[output].flags \cap flags)
             byFlags(acc1) ==
                 IF commonFlags > acc1.max
                 THEN [acc1 EXCEPT !.forFlags = output, !.max = commonFlags,
                                   !.bestFormatForFlags = mFormat]
                 ELSE IF commonFlags = acc1.max /\ format # AUDIO_FORMAT_INVALID
                         /\ isBetterFormatMatch(mFormat, acc1.bestFormatForFlags, format)
                 THEN [acc1 EXCEPT !.forFlags = output, !.bestFormatForFlags = mFormat]
                 ELSE acc1
             byPrimary(acc2) ==
                 IF format # AUDIO_FORMAT_INVALID /\ ~audio_is_linear_pcm(format) THEN acc
                 ELSE IF "PRIMARY" \in profiles[output].flags
                 THEN [acc2 EXCEPT !.primary = output]
                 ELSE acc2
         IN selectOutputLoopDirect(profiles, Tail(outputs), flags, format,
                byPrimary(byFlags(IF format # AUDIO_FORMAT_INVALID
                                     /\ isBetterFormatMatch(mFormat, acc.bestFormat, format)
                                  THEN [acc EXCEPT !.forFormat = output, !.bestFormat = mFormat]
                                  ELSE acc)))

\* selectOutput: the loop over the candidates; acc is outputForFlags,
\* maxCommonFlags, outputForPrimary, outputForFormat, bestFormat and
\* bestFormatForFlags
RECURSIVE selectOutputLoop(_, _, _, _, _)
selectOutputLoop(profiles, outputs, flags, format, acc) ==
    IF outputs = << >> THEN acc
    ELSE LET output == Head(outputs)
             mFormat == profiles[output].format
             commonFlags == Cardinality(profiles[output].flags \cap flags)
             byFlags(acc1) ==
                 IF commonFlags > acc1.max
                 THEN [acc1 EXCEPT !.forFlags = output, !.max = commonFlags,
                                   !.bestFormatForFlags = mFormat]
                 ELSE IF commonFlags = acc1.max /\ format # AUDIO_FORMAT_INVALID
                         /\ isBetterFormatMatch(mFormat, acc1.bestFormatForFlags, format)
                 THEN [acc1 EXCEPT !.forFlags = output, !.bestFormatForFlags = mFormat]
                 ELSE acc1
             byPrimary(acc2) ==
                 IF "DIRECT" \in profiles[output].flags THEN acc
                 ELSE IF format # AUDIO_FORMAT_INVALID /\ ~audio_is_linear_pcm(format) THEN acc
                 ELSE IF "PRIMARY" \in profiles[output].flags
                 THEN [acc2 EXCEPT !.primary = output]
                 ELSE acc2
         IN selectOutputLoop(profiles, Tail(outputs), flags, format,
                byPrimary(byFlags(IF format # AUDIO_FORMAT_INVALID
                                     /\ isBetterFormatMatch(mFormat, acc.bestFormat, format)
                                  THEN [acc EXCEPT !.forFormat = output, !.bestFormat = mFormat]
                                  ELSE acc)))

\* selectOutput(outputs, flags, format): profiles gives the flags and the
\* format of the candidates, which are taken in the order of their handles
selectOutput(profiles, outputs, flags, format) ==
    IF outputs = {} THEN NONE
    ELSE IF Cardinality(outputs) = 1 THEN CHOOSE o \in outputs : TRUE
    ELSE LET selected(acc) ==
                 IF acc.forFlags # NONE THEN acc.forFlags
                 ELSE IF acc.forFormat # NONE THEN acc.forFormat
                 ELSE IF acc.primary # NONE THEN acc.primary
                 ELSE SetToSeq(outputs)[1]
         IN selected(selectOutputLoop(profiles, SetToSeq(outputs), flags, format,
                                      [forFlags |-> NONE, max |-> 0, primary |-> NONE,
                                       forFormat |-> NONE,
                                       bestFormat |-> AUDIO_FORMAT_INVALID,
                                       bestFormatForFlags |-> AUDIO_FORMAT_INVALID]))

invalidateStreams(S, strategy) ==
    ForEach(S, 1, Len(Streams),
            LAMBDA T, i : IF getStrategy(Streams[i]) = strategy
                          THEN Log(T, [f |-> "invalidateStream", stream |-> Streams[i]])
                          ELSE T)

\* getSourceForStrategyOnOutput(output, strategy): the port of the first source
\* of the strategy that plays through the output, NONE when there is none
getSourceForStrategyOnOutput(S, output, strategy) ==
    LET found == {p \in DOMAIN S.sources :
                      /\ getStrategy(S.sources[p].stream) = strategy
                      /\ S.sources[p].swOutput \in DOMAIN S.outs
                      /\ S.sources[p].swOutput = output}
    IN IF found = {} THEN NONE ELSE CHOOSE p \in found : \A q \in found : p <= q

RECURSIVE connectAudioSource(_, _)

\* checkOutputForStrategy: "connectAudioSource(source)" for the source of the
\* strategy on a source output
reconnectSource(S, source) ==
    IF source = NONE THEN S
    ELSE The({[T EXCEPT !.sources[source] = T.src] :
              T \in {connectAudioSource(S, S.sources[source])}})

\* checkOutputForStrategy: "mute strategy while moving tracks from one output to another"
muteSrcOutput(S, srcOut, strategy, muteDelay, newDevice) ==
    IF srcOut \in DOMAIN S.outs /\ isStrategyActive(S, srcOut, strategy)
    THEN setStrategyMute(setStrategyMute(S, strategy, TRUE, srcOut, 0, {}),
                         strategy, FALSE, srcOut, muteDelay, newDevice)
    ELSE S

muteSrcOutputs(S, srcOutputs, strategy, muteDelay, newDevice) ==
    ForEach(S, 1, Len(srcOutputs),
            LAMBDA T, n :
                reconnectSource(
                    muteSrcOutput(T, srcOutputs[n], strategy, muteDelay, newDevice),
                    getSourceForStrategyOnOutput(T, srcOutputs[n], strategy)))

RECURSIVE maxLatencyOf(_)
maxLatencyOf(outputs) ==
    IF outputs = {} THEN 0
    ELSE LET o == CHOOSE x \in outputs : TRUE
         IN Max(latency(o), maxLatencyOf(outputs \ {o}))

LATENCY_MUTE_FACTOR == 4

checkOutputForStrategy(S, strategy) ==
    The({LET srcOutputs == getOutputsForDevice(oldDevice, S.prevOuts)
             dstOutputs == getOutputsForDevice(newDevice, DOMAIN S.outs)
         IN IF srcOutputs # dstOutputs
            THEN invalidateStreams(
                     muteSrcOutputs(S, SetToSeq(srcOutputs), strategy,
                                    maxLatencyOf(srcOutputs) * LATENCY_MUTE_FACTOR, newDevice),
                     strategy)
            ELSE S :
         oldDevice \in {getDeviceForStrategy(S, strategy, TRUE)},
         newDevice \in {getDeviceForStrategy(S, strategy, FALSE)}})

\* checkOutputForAllStrategies: the strategies in the order they are checked
checkOrder(S) ==
    IF S.force["SYSTEM"] = "SYSTEM_ENFORCED"
    THEN <<"ENFORCED_AUDIBLE", "PHONE", "SONIFICATION", "SONIFICATION_RESPECTFUL",
           "ACCESSIBILITY", "MEDIA", "DTMF", "REROUTING">>
    ELSE <<"PHONE", "ENFORCED_AUDIBLE", "SONIFICATION", "SONIFICATION_RESPECTFUL",
           "ACCESSIBILITY", "MEDIA", "DTMF", "REROUTING">>

checkOutputForAllStrategies(S) ==
    ForEach(S, 1, Len(checkOrder(S)),
            LAMBDA T, n : checkOutputForStrategy(T, checkOrder(S)[n]))

\* mPreviousOutputs = mOutputs
rememberOutputs(S) == [S EXCEPT !.prevOuts = DOMAIN S.outs]

\* getMsdAudioOutDeviceTypes(): the available output devices of the MSD module,
\* none when the module is not loaded
getMsdAudioOutDeviceTypes(S) == S.availOut \cap MsdOutDevices

\* mHwModules.getModuleFromName(AUDIO_HARDWARE_MODULE_ID_MSD) != 0: the devices
\* of a loaded module are attached
msdModuleLoaded(S) == MsdInDevice \in S.availIn

RECURSIVE setMsdPatch(_, _)

\* mOutputs.getA2dpOutput(): the first output that is not the duplicating one
\* and is on an A2DP device, 0 when there is none
getA2dpOutput(S) ==
    IF \E o \in DOMAIN S.outs : S.outs[o].mDevice \cap A2dpDevices # {}
    THEN CHOOSE o \in DOMAIN S.outs :
             /\ S.outs[o].mDevice \cap A2dpDevices # {}
             /\ \A other \in DOMAIN S.outs :
                    S.outs[other].mDevice \cap A2dpDevices # {} => o <= other
    ELSE 0

\* mOutputs.isA2dpOffloadedOnPrimary(): the primary module has a profile for
\* the A2DP devices
isA2dpOffloadedOnPrimary(S) ==
    \E p \in OutputIds : /\ sharesHwModuleWith(p, mPrimaryOutput)
                         /\ supportedDevices(p) \cap A2dpDevices # {}

\* checkA2dpSuspend, isScoConnected: the SCO headset among the available input
\* devices or a SCO device among the available output devices
ScoOutDevices == {"SCO"}
isScoConnected(S) == "SCOMIC" \in S.availIn \/ S.availOut \cap ScoOutDevices # {}

\* checkA2dpSuspend, the uses that ask for the SCO link
scoInUse(S) ==
    \/ S.force["COMMUNICATION"] = "BT_SCO"
    \/ S.force["RECORD"] = "BT_SCO"
    \/ S.phone = "IN_CALL"
    \/ S.phone = "RINGTONE"

\* checkA2dpSuspend()
checkA2dpSuspend(S) ==
    IF getA2dpOutput(S) = 0 \/ isA2dpOffloadedOnPrimary(S)
    THEN [S EXCEPT !.suspended = FALSE]
    ELSE IF S.suspended
    THEN IF ~isScoConnected(S) \/ ~scoInUse(S)
         THEN [Log(S, [f |-> "restoreOutput", output |-> getA2dpOutput(S)])
                  EXCEPT !.suspended = FALSE]
         ELSE S
    ELSE IF isScoConnected(S) /\ scoInUse(S)
         THEN [Log(S, [f |-> "suspendOutput", output |-> getA2dpOutput(S)])
                  EXCEPT !.suspended = TRUE]
         ELSE S

\* checkForDeviceAndOutputChanges() without the callback
checkForDeviceAndOutputChanges(S) ==
    The({IF msdModuleLoaded(T) THEN [setMsdPatch(T, {}) EXCEPT !.status = T.status] ELSE T :
         T \in {rememberOutputs(updateDevicesAndOutputs(
                                    checkOutputForAllStrategies(checkA2dpSuspend(S))))}})

handleNotificationRoutingForStream(S, stream) ==
    IF stream = "MUSIC"
    THEN rememberOutputs(updateDevicesAndOutputs(
                             checkOutputForStrategy(S, "SONIFICATION_RESPECTFUL")))
    ELSE S

checkStrategyRoute(S, strategy, ouptutToSkip) ==
    The({ForEach(S, 1, Cardinality(DOMAIN S.outs),
                 LAMBDA T, n :
                     IF outputs[n] = ouptutToSkip \/ ~isStrategyActive(T, outputs[n], strategy)
                     THEN T
                     ELSE IF outputs[n] \notin reachable THEN invalidateStreams(T, strategy)
                     ELSE setOutputDevice([T EXCEPT !.hnd = NONE], outputs[n],
                                          getNewOutputDevice(T, outputs[n], FALSE),
                                          FALSE, 0, TRUE)) :
         outputs \in {SetToSeq(DOMAIN S.outs)},
         reachable \in {getOutputsForDevice(getDeviceForStrategy(S, strategy, FALSE),
                                            DOMAIN S.outs)}})

\* ------------------------------------------------------ playback start/stop
\* SwAudioOutputDescriptorCollection::isAnyOutputActive(streamToIgnore)
isAnyOutputActive(S, streamToIgnore) ==
    \E o \in DOMAIN S.outs : \E i \in 1..Len(Streams) :
        Streams[i] # streamToIgnore /\ isStreamActive(S, o, Streams[i])

\* AudioOutputDescriptor::isActive(inPastMs) with inPastMs = 2 * latency: active
\* now, or a stream was stopped on it within the drain window
isActiveInPast(S, o) == isActive(S, o) \/ S.outs[o].mStopTime

\* startSource: the loop over the other outputs; acc is [force, requiresMuteCheck]
RECURSIVE startSourceOthers(_, _, _, _, _)
startSourceOthers(S, outputs, o, device, acc) ==
    IF outputs = << >> THEN acc
    ELSE LET desc == Head(outputs)
             sharedDevice == sharesHwModuleWith(o, desc)
                             /\ supportedDevices(desc) \cap device # {}
         IN startSourceOthers(S, Tail(outputs), o, device,
                IF desc = o THEN acc
                ELSE [force |-> acc.force \/ (sharedDevice /\ S.outs[desc].mDevice # device
                                              /\ S.outs[desc].patch # NONE),
                      requiresMuteCheck |-> acc.requiresMuteCheck
                                            \/ (sharedDevice /\ isActiveInPast(S, desc))])

\* startSource: "invalidateStream(AUDIO_STREAM_ACCESSIBILITY)" when a
\* sonification stream starts
invalidateAccessibility(S, stream) ==
    IF getStrategy(stream) = "SONIFICATION"
    THEN Log(S, [f |-> "invalidateStream", stream |-> "ACCESSIBILITY"])
    ELSE S

\* startSource once the output is routed: "apply volume rules for current
\* stream and device if necessary", then the notification routing
startSourceRouted(S, o, stream) ==
    The({invalidateAccessibility(handleNotificationRoutingForStream(S1, stream), stream) :
         S1 \in {checkAndSetVolume(S, stream, getVolumeIndex(S, stream, S.outs[o].mDevice),
                                   o, S.outs[o].mDevice, 0, FALSE)}})

\* startSource: the routing of the output to device, when the stream becomes
\* active on it or the client has a preferred device
startSourceSelect(S, o, stream, device, force, requiresMuteCheck) ==
    The({startSourceRouted(S1, o, stream) :
         S1 \in {The({setOutputDevice([S EXCEPT !.hnd = NONE], o, device, acc.force, 0,
                                      acc.requiresMuteCheck) :
                      acc \in {startSourceOthers(S, SetToSeq(DOMAIN S.outs), o, device,
                                                 [force |-> force,
                                                  requiresMuteCheck |->
                                                      requiresMuteCheck])}})}})

\* startSource: "force enforced mute" of sonification under the system force use
enforcedAudibleMute(S, o, stream) ==
    IF stream = "ENFORCED_AUDIBLE" /\ S.force["SYSTEM"] = "SYSTEM_ENFORCED"
    THEN setStrategyMute(S, "SONIFICATION", TRUE, o, 0, {}) ELSE S

\* startSource after the client is made active: device0 is the device selected
\* for a client with a preferred device, force and requiresMuteCheck are as
\* read before the activation
startSourceActive(S, o, portId, device0, force, requiresMuteCheck) ==
    LET stream == S.tracks[portId].stream
    IN The({[enforcedAudibleMute(S3, o, stream) EXCEPT !.status = NO_ERROR] :
            S3 \in {The({IF streamActiveCount(S2, o, stream) = 1 \/ device0 # {}
                         THEN startSourceSelect(
                                  S2, o, stream,
                                  IF device0 = {} THEN getNewOutputDevice(S2, o, FALSE)
                                  ELSE device0,
                                  force, requiresMuteCheck)
                         ELSE S2 :
                         S2 \in {IF S.tracks[portId].pref # NoDevice
                                    /\ device0 # S.outs[o].mDevice
                                 THEN checkStrategyRoute(S, getStrategy(stream), o)
                                 ELSE S}})}})

\* the client of a port made active
activated(S, portId) == [S EXCEPT !.tracks[portId].active = TRUE]

\* startSource(outputDesc, client, delayMs): S.status is the returned status
startSource(S, o, portId) ==
    IF S.tracks[portId].stream = "TTS" /\ ~mTtsOutputAvailable /\ isAnyOutputActive(S, "TTS")
    THEN [S EXCEPT !.status = INVALID_OPERATION]
    ELSE The({startSourceActive(
                  activated(S0, portId), o, portId,
                  IF S.tracks[portId].pref # NoDevice
                  THEN getNewOutputDevice(activated(S0, portId), o, FALSE) ELSE {},
                  ~isActive(S0, o) /\ S0.outs[o].patch = NONE,
                  isActiveInPast(S0, o)) :
              S0 \in {handleEventForBeacon(S, IF S.tracks[portId].stream = "TTS"
                                              THEN "STARTING_BEACON"
                                              ELSE "STARTING_OUTPUT")}})

startOutput(S, portId) ==
    IF portId \notin DOMAIN S.tracks THEN [S EXCEPT !.status = BAD_VALUE]
    ELSE startSource(S, S.tracks[portId].output, portId)

\* stopSource: one other active output re-routed to newDevice2
stopSourceOther(S, desc, newDevice2, delayMs) ==
    The({IF S.outs[desc].mDevice = newDevice2
         THEN applyStreamVolumes(T1, desc, newDevice2, delayMs, FALSE)
         ELSE T1 :
         T1 \in {setOutputDevice([S EXCEPT !.hnd = NONE], desc, newDevice2,
                                 S.outs[desc].mDevice # newDevice2, delayMs, TRUE)}})

\* stopSource: "force restoring the device selection on other active outputs"
stopSourceOthers(S, o, newDevice, delayMs) ==
    ForEach(S, 1, Cardinality(DOMAIN S.outs),
            LAMBDA T, n :
                LET desc == SetToSeq(DOMAIN S.outs)[n]
                IN IF desc # o /\ isActive(T, desc) /\ sharesHwModuleWith(o, desc)
                      /\ newDevice # T.outs[desc].mDevice
                   THEN stopSourceOther(T, desc, getNewOutputDevice(T, desc, FALSE), delayMs)
                   ELSE T)

\* stopSource: the output re-routed to newDevice once the stream is stopped on it
stopSourceRoute(S, o, stream, newDevice) ==
    The({handleNotificationRoutingForStream(S2, stream) :
         S2 \in {The({stopSourceOthers(S1, o, newDevice, latency(o) * 2) :
                      S1 \in {setOutputDevice([S EXCEPT !.hnd = NONE], o, newDevice, FALSE,
                                              latency(o) * 2, TRUE)}})}})

\* stopSource: the enforced mute of sonification taken back
enforcedAudibleUnmute(S, o, stream) ==
    IF stream = "ENFORCED_AUDIBLE" /\ S.force["SYSTEM"] = "SYSTEM_ENFORCED"
    THEN setStrategyMute(S, "SONIFICATION", FALSE, o, 0, {}) ELSE S

\* stopSource on a stream that is active on the output, after the strategy
\* route check of a client with a preferred device
stopSourceActive(S, o, portId, forceDeviceUpdate) ==
    LET stream == S.tracks[portId].stream
        S2 == [S EXCEPT !.tracks[portId].active = FALSE]
        T0 == [S2 EXCEPT !.outs[o].mStopTime = TRUE]
    IN The({[enforcedAudibleUnmute(S3, o, stream) EXCEPT !.status = NO_ERROR] :
            S3 \in {IF streamActiveCount(S2, o, stream) = 0 \/ forceDeviceUpdate
                    THEN stopSourceRoute(T0, o, stream, getNewOutputDevice(T0, o, FALSE))
                    ELSE S2}})

\* stopSource(outputDesc, client): S.status is the returned status
stopSource(S, o, portId) ==
    The({IF streamActiveCount(S0, o, S.tracks[portId].stream) > 0
         THEN The({stopSourceActive(
                       S1, o, portId,
                       S0.tracks[portId].pref # NoDevice /\ S0.tracks[portId].active) :
                   S1 \in {IF S0.tracks[portId].pref # NoDevice /\ S0.tracks[portId].active
                           THEN checkStrategyRoute(S0, getStrategy(S.tracks[portId].stream),
                                                   NONE)
                           ELSE S0}})
         ELSE [S0 EXCEPT !.status = INVALID_OPERATION] :
         S0 \in {handleEventForBeacon(S, IF S.tracks[portId].stream = "TTS"
                                         THEN "STOPPING_BEACON" ELSE "STOPPING_OUTPUT")}})

stopOutput(S, portId) ==
    IF portId \notin DOMAIN S.tracks THEN [S EXCEPT !.status = BAD_VALUE]
    ELSE stopSource(S, S.tracks[portId].output, portId)

\* ------------------------------------------------------------ audio sources
\* SourceClientDescriptor of startAudioSource: the client, its source device,
\* its patch descriptor (patch is mHandle, af is mAfPatchHandle, mPatch the
\* patch) and the output it plays through (swOutput)
newSourceClient(portId, uid, stream, device, handle) ==
    [portId |-> portId, uid |-> uid, stream |-> stream, srcDevice |-> device,
     patch |-> handle, af |-> NONE, mPatch |-> NONE, swOutput |-> NONE]

\* disconnectAudioSource after removeAudioPatch, for a source with an output:
\* S is the state stopSource left, afPatchHandle the transport handle of the
\* patch; the source is no longer a client of the output
disconnectStopped(S, o, afPatchHandle) ==
    [afReleaseAudioPatch(IF S.status = NO_ERROR THEN Log(S, [f |-> "stop", io |-> o]) ELSE S,
                         afPatchHandle, 0)
        EXCEPT !.status = NO_ERROR, !.tracks = removeKey(@, S.src.portId)]

\* disconnectAudioSource(sourceDesc): S.src is the source
disconnectAudioSource(S) ==
    IF S.src.patch \notin DOMAIN S.patches THEN [S EXCEPT !.status = BAD_VALUE]
    ELSE IF S.src.swOutput \in DOMAIN S.outs
    THEN disconnectStopped(
             stopSource([S EXCEPT !.patches = removeKey(@, S.src.patch)],
                        S.src.swOutput, S.src.portId),
             S.src.swOutput, S.patches[S.src.patch].mAfPatchHandle)
    ELSE [S EXCEPT !.patches = removeKey(@, S.src.patch), !.status = NO_ERROR]

\* connectAudioSource once startSource has returned: afPatchHandle is the
\* handle the transport gave to the new patch
connectStarted(S, output, afPatchHandle) ==
    IF S.status # NO_ERROR
    THEN [afReleaseAudioPatch(S, S.src.af, 0)
             EXCEPT !.status = S.status, !.tracks = removeKey(@, S.src.portId)]
    ELSE [S EXCEPT !.src.swOutput = output, !.src.af = afPatchHandle,
                   !.patches = addKey(@, S.src.patch,
                                   [mPatch |-> S.src.mPatch, mUid |-> S.src.uid,
                                    mAfPatchHandle |-> afPatchHandle]),
                   !.status = NO_ERROR]

\* connectAudioSource once the transport has answered createAudioPatch: patch is
\* the patch of the source device and the output mix
connectPatched(S, output, patch) ==
    IF S.status # NO_ERROR
    THEN [S EXCEPT !.src.mPatch = patch, !.status = INVALID_OPERATION]
    ELSE connectStarted(
             startSource([S EXCEPT !.src.mPatch = patch,
                                   !.tracks = addKey(@, S.src.portId,
                                                  [output |-> output,
                                                   stream |-> S.src.stream,
                                                   pref |-> NoDevice, active |-> FALSE])],
                         output, S.src.portId),
             output, S.ret)

\* connectAudioSource after disconnectAudioSource: the devices of the catalog
\* declare no gains, the source is bridged through an output stream
connectSelected(S) ==
    LET sinkDevice == getDeviceForStrategy(S, getStrategy(S.src.stream), TRUE)
        connect(output) ==
            LET patch == [kind |-> "source", mix |-> output, src |-> S.src.srcDevice,
                          sinks |-> {}]
            IN IF output = NONE THEN [S EXCEPT !.status = INVALID_OPERATION]
               ELSE connectPatched(
                        afCreateAudioPatch(Log(S, [f |-> "start", io |-> output]),
                                           patch, NONE, 0),
                        output, patch)
    IN connect(selectOutput(OutputProfiles,
                            getOutputsForDevice(sinkDevice, DOMAIN S.outs),
                            {}, AUDIO_FORMAT_INVALID))

\* connectAudioSource(sourceDesc): S.src is the source on return
connectAudioSource(S, sourceDesc) ==
    connectSelected(disconnectAudioSource([S EXCEPT !.src = sourceDesc]))

\* startAudioSource once connectAudioSource has returned
startAudioSourceDone(S) ==
    IF S.status = NO_ERROR THEN [S EXCEPT !.sources = addKey(@, S.src.portId, S.src)] ELSE S

\* startAudioSource(source, attributes, portId, uid): source is a device port,
\* the attributes give the stream; portId is the id taken from getNextUniqueId
startAudioSource(S, device, stream, portId, uid) ==
    IF device \notin S.availIn THEN [S EXCEPT !.status = BAD_VALUE]
    ELSE startAudioSourceDone(
             connectAudioSource([S EXCEPT !.next = @ + 1],
                                newSourceClient(portId, uid, stream, device, S.next)))

\* stopAudioSource(portId)
stopAudioSource(S, portId) ==
    IF portId \notin DOMAIN S.sources THEN [S EXCEPT !.status = BAD_VALUE]
    ELSE [disconnectAudioSource([S EXCEPT !.src = S.sources[portId]])
             EXCEPT !.sources = removeKey(@, portId)]

\* ------------------------------------------------------------ capture side
\* input profiles by HW module: supported devices and flags; the primary module
\* has a second profile, for MMAP (AUDIO_INPUT_FLAG_MMAP_NOIRQ) capture
InputProfileIds == {1, 2, 3, 4}
InputProfile(pr) ==
    CASE pr = 1 -> [supported |-> {"MIC"}, module |-> 1, mmap |-> FALSE]
      [] pr = 2 -> [supported |-> {"SCOMIC"}, module |-> 2, mmap |-> FALSE]
      [] pr = 3 -> [supported |-> {"SUBMIX"}, module |-> 3, mmap |-> FALSE]
      [] OTHER -> [supported |-> {"MIC"}, module |-> 1, mmap |-> TRUE]
availablePrimaryInputDevices(S) == InputProfile(1).supported \cap S.availIn
DeviceModule(device) ==
    InputProfile(CHOOSE pr \in InputProfileIds : device \in InputProfile(pr).supported).module

\* mEngine->getDeviceForInputSource
EnginePreferredInputDevice(S, source) ==
    CASE source = "REMOTE_SUBMIX" -> {"SUBMIX"}
      [] source = "VOICE_COMMUNICATION" ->
             IF S.force["COMMUNICATION"] = "BT_SCO" /\ "SCOMIC" \in S.availIn
             THEN {"SCOMIC"} ELSE {"MIC"}
      [] OTHER -> IF S.force["RECORD"] = "BT_SCO" /\ "SCOMIC" \in S.availIn
                  THEN {"SCOMIC"} ELSE {"MIC"}

\* the engine selects among the available input devices, none when the device
\* of the source is not available
EngineDeviceForInputSource(S, source) ==
    EnginePreferredInputDevice(S, source) \cap S.availIn

AUDIO_SOURCE_DEFAULT == "DEFAULT"

\* AudioInputDescriptor::clientsList(activeOnly, source, preferredDeviceOnly)
recordClientsList(S, i, activeOnly, source, preferredDeviceOnly) ==
    SetToSeq({p \in DOMAIN S.recs :
        /\ S.recs[p].input = i
        /\ (~activeOnly \/ S.recs[p].active)
        /\ (source = AUDIO_SOURCE_DEFAULT \/ source = S.recs[p].source)
        /\ (~preferredDeviceOnly \/ S.recs[p].pref # NoDevice)})

\* SourceClientDescriptor / AudioInputDescriptor: source_priority
source_priority(source) ==
    CASE source = "VOICE_COMMUNICATION" -> 6
      [] source = "MIC" -> 2
      [] source = "HOTWORD" -> 1
      [] OTHER -> 0

\* AudioInputDescriptor::getHighestPrioritySource(activeOnly)
RECURSIVE highestOf(_, _, _, _)
highestOf(S, clients, source, priority) ==
    IF clients = << >> THEN source
    ELSE LET cur == S.recs[Head(clients)].source
         IN IF source_priority(cur) > priority
            THEN highestOf(S, Tail(clients), cur, source_priority(cur))
            ELSE highestOf(S, Tail(clients), source, priority)

getHighestPrioritySource(S, i, activeOnly) ==
    highestOf(S, recordClientsList(S, i, activeOnly, AUDIO_SOURCE_DEFAULT, FALSE),
              AUDIO_SOURCE_DEFAULT, -1)

\* InputDescriptorCollection::getActiveInputs, in io handle order
getActiveInputs(S) ==
    SetToSeq({i \in DOMAIN S.ins : \E p \in DOMAIN S.recs :
                  S.recs[p].input = i /\ S.recs[p].active})

\* findPreferredDevice(desc, filter, active, devices) for an input
findPreferredInputDeviceIo(S, i, filter) ==
    The({[active |-> Len(activeClients) > 0,
          device |-> IF Len(activeClients) > 0
                        /\ Len(activeClients) = Len(activeClientsWithRoute)
                     THEN getDeviceFromId(S.availIn,
                                          S.recs[activeClientsWithRoute[1]].pref)
                     ELSE NoDevice] :
         activeClients \in {recordClientsList(S, i, TRUE, AUDIO_SOURCE_DEFAULT, FALSE)},
         activeClientsWithRoute \in {recordClientsList(S, i, TRUE, filter, TRUE)}})

\* findPreferredDevice(mInputs, filter, devices): the loop over mInputs
RECURSIVE findPreferredInputDeviceLoop(_, _, _, _)
findPreferredInputDeviceLoop(S, filter, inputs, device) ==
    IF inputs = << >> THEN device
    ELSE The({IF cur.active /\ cur.device = NoDevice THEN NoDevice
              ELSE findPreferredInputDeviceLoop(S, filter, Tail(inputs),
                       IF cur.device # NoDevice THEN cur.device ELSE device) :
              cur \in {findPreferredInputDeviceIo(S, Head(inputs), filter)}})

\* getDeviceAndMixForInputSource: no policy mix is registered
getDeviceAndMixForInputSource(S, inputSource) ==
    The({IF deviceDesc # NoDevice THEN {deviceDesc}
         ELSE EngineDeviceForInputSource(S, inputSource) :
         deviceDesc \in {findPreferredInputDeviceLoop(S, inputSource,
                                                      SetToSeq(DOMAIN S.ins), NoDevice)}})

getNewInputDevice(S, i) ==
    IF S.ins[i].patch \in DOMAIN S.patches /\ S.patches[S.ins[i].patch].mUid # mUidCached
    THEN S.ins[i].mDevice
    ELSE The({LET source == IF source0 = AUDIO_SOURCE_DEFAULT /\ isInCall(S)
                            THEN "VOICE_COMMUNICATION" ELSE source0
              IN IF deviceDesc # NoDevice THEN {deviceDesc}
                 ELSE IF source # AUDIO_SOURCE_DEFAULT
                 THEN getDeviceAndMixForInputSource(S, source)
                 ELSE {} :
              deviceDesc \in {findPreferredInputDeviceIo(S, i, AUDIO_SOURCE_DEFAULT).device},
              source0 \in {getHighestPrioritySource(S, i, TRUE)}})

\* setInputDevice(input, device, force, patchHandle): S.hnd is *patchHandle
setInputDevice(S, i, device, force) ==
    IF device # {} /\ (device # S.ins[i].mDevice \/ force)
    THEN LET S1 == [S EXCEPT !.ins[i].mDevice = device, !.status = NO_ERROR]
             deviceList == device \cap S.availIn
         IN IF deviceList # {}
            THEN installPatchInput(S1, i,
                     [kind |-> "dev2mix", mix |-> i,
                      src |-> CHOOSE d \in deviceList : TRUE,
                      sinks |-> {}], 0)
            ELSE S1
    ELSE [S EXCEPT !.status = NO_ERROR]

closeInput(S, i) ==
    IF i \notin DOMAIN S.ins THEN S
    ELSE LET S1 == nextAudioPortGeneration(S)
             key == S1.ins[i].patch
             S2 == IF key \in DOMAIN S1.patches
                   THEN Log([afReleaseAudioPatch(S1, S1.patches[key].mAfPatchHandle, 0)
                                EXCEPT !.patches = removeKey(@, key)],
                            [f |-> "onAudioPatchListUpdate"])
                   ELSE S1
         IN [afClose(S2, i)
                EXCEPT !.ins = removeKey(@, i),
                       !.recs = [p \in {q \in DOMAIN @ : @[q].input # i} |-> @[p]]]

\* ------------------------------------------------------ capture start/stop
stopInput(S, portId) ==
    IF portId \notin DOMAIN S.recs THEN [S EXCEPT !.status = BAD_VALUE]
    ELSE IF ~S.recs[portId].active THEN [S EXCEPT !.status = INVALID_OPERATION]
    ELSE LET i == S.recs[portId].input
             S1 == [S EXCEPT !.recs[portId].active = FALSE]
         IN [(IF recordClientsList(S1, i, TRUE, AUDIO_SOURCE_DEFAULT, FALSE) # << >>
              THEN setInputDevice([S1 EXCEPT !.hnd = NONE], i,
                                  getNewInputDevice(S1, i), FALSE)
              ELSE [resetInputDevice(S1, i) EXCEPT !.ins[i].preempted = {}])
                EXCEPT !.status = NO_ERROR]

releaseInput(S, portId) ==
    IF portId \notin DOMAIN S.recs THEN S
    ELSE LET i == S.recs[portId].input
             S1 == [S EXCEPT !.recs = removeKey(@, portId)]
         IN IF recordClientsList(S1, i, FALSE, AUDIO_SOURCE_DEFAULT, FALSE) # << >> THEN S1
            ELSE Log(closeInput(S1, i), [f |-> "onAudioPortListUpdate"])

closeClient(S, portId) == releaseInput(stopInput(S, portId), portId)

\* startInput: the inner loop closing the silenced clients of one active input;
\* S.ret counts the clients closed
RECURSIVE closeSilenced(_, _)
closeSilenced(S, activeClients) ==
    IF activeClients = << >> THEN S
    ELSE closeSilenced(
             IF Head(activeClients) \in DOMAIN S.recs /\ S.recs[Head(activeClients)].silenced
             THEN [closeClient(S, Head(activeClients)) EXCEPT !.ret = S.ret + 1]
             ELSE S,
             Tail(activeClients))

\* startInput: the loop over the snapshot of active inputs.  The loop assigns the
\* vector it iterates over after every eviction; what the iteration then reads is
\* undefined: staleRead says whether it goes on through the old snapshot or ends.
RECURSIVE evictSilenced(_, _, _, _)
evictSilenced(S, activeInputs, i, staleRead) ==
    IF activeInputs = << >> THEN S
    ELSE The({IF S1.ret > 0 /\ ~staleRead THEN S1
              ELSE evictSilenced(S1, Tail(activeInputs), i, staleRead) :
              S1 \in {IF (Head(activeInputs) \in DOMAIN S.ins
                          /\ S.ins[Head(activeInputs)].mmap /\ Head(activeInputs) = i)
                      THEN [S EXCEPT !.ret = 0]
                      ELSE closeSilenced([S EXCEPT !.ret = 0],
                               recordClientsList(S, Head(activeInputs), TRUE,
                                                 AUDIO_SOURCE_DEFAULT, FALSE))}})

\* a faulty conflict loop that lets a hotword request pass a capture that is
\* not hotword
RECURSIVE captureConflictLenient(_, _, _)
captureConflictLenient(S, activeInputs, portId) ==
    IF activeInputs = << >> THEN "NONE"
    ELSE LET activeDesc == Head(activeInputs)
             client == S.recs[portId]
             activeSource == getHighestPrioritySource(S, activeDesc, TRUE)
         IN IF client.mmap /\ activeDesc = client.input
            THEN captureConflictLenient(S, Tail(activeInputs), portId)
            ELSE IF client.source = "HOTWORD"
            THEN IF activeSource = "HOTWORD" /\ client.session \in S.ins[activeDesc].preempted
                 THEN "HOTWORD"
                 ELSE captureConflictLenient(S, Tail(activeInputs), portId)
            ELSE IF activeSource # "HOTWORD" THEN "CAPTURE"
            ELSE captureConflictLenient(S, Tail(activeInputs), portId)

\* startInput: the conflict loop; the result is the concurrency flag that fails
\* the request, or "NONE"
RECURSIVE captureConflict(_, _, _)
captureConflict(S, activeInputs, portId) ==
    IF activeInputs = << >> THEN "NONE"
    ELSE LET activeDesc == Head(activeInputs)
             client == S.recs[portId]
             activeSource == getHighestPrioritySource(S, activeDesc, TRUE)
         IN IF client.mmap /\ activeDesc = client.input
            THEN captureConflict(S, Tail(activeInputs), portId)
            ELSE IF client.source = "HOTWORD"
            THEN IF activeSource = "HOTWORD"
                 THEN IF client.session \in S.ins[activeDesc].preempted THEN "HOTWORD"
                      ELSE captureConflict(S, Tail(activeInputs), portId)
                 ELSE "CAPTURE"
            ELSE IF activeSource # "HOTWORD" THEN "CAPTURE"
            ELSE captureConflict(S, Tail(activeInputs), portId)

\* startInput: "if capture is allowed, preempt currently active HOTWORD captures"
RECURSIVE closeAll(_, _)
closeAll(S, clients) ==
    IF clients = << >> THEN S ELSE closeAll(closeClient(S, Head(clients)), Tail(clients))

\* a faulty preemption that leaves the active hotword clients running
preemptHotwordNone(S, activeInputs, i) == S

\* a faulty preemption that closes the hotword clients without reporting PREEMPT
RECURSIVE preemptHotwordUnflagged(_, _, _)
preemptHotwordUnflagged(S, activeInputs, i) ==
    IF activeInputs = << >> THEN S
    ELSE preemptHotwordUnflagged(
             closeAll(S, recordClientsList(S, Head(activeInputs), TRUE, "HOTWORD", FALSE)),
             Tail(activeInputs), i)

RECURSIVE preemptHotword(_, _, _)
preemptHotword(S, activeInputs, i) ==
    IF activeInputs = << >> THEN S
    ELSE LET activeDesc == Head(activeInputs)
             activeHotwordClients == recordClientsList(S, activeDesc, TRUE, "HOTWORD", FALSE)
             sessions == (IF activeDesc \in DOMAIN S.ins THEN S.ins[activeDesc].preempted
                          ELSE {})
                         \cup {S.recs[activeHotwordClients[n]].session :
                                   n \in 1..Len(activeHotwordClients)}
         IN preemptHotword(
                IF activeHotwordClients # << >>
                THEN [closeAll(S, activeHotwordClients)
                         EXCEPT !.ins[i].preempted = sessions,
                                !.conc = @ \cup {"PREEMPT"}]
                ELSE S,
                Tail(activeInputs), i)

\* a faulty call check that never finds the call on the input's module
callOnModuleNever(S, i) == FALSE

\* startInput: a call TX patch exists and its source device is on the HW module
\* of the input
callOnModule(S, i) ==
    S.callTx.on /\ InputProfile(S.ins[i].profile).module = S.callTx.module

\* startInput once the request is allowed: the client is made active and the
\* input routed
startInputActive(S, portId, silenced) ==
    LET i == S.recs[portId].input
        S3 == [S EXCEPT !.recs[portId].silenced = silenced,
                        !.recs[portId].active = TRUE, !.hnd = NONE]
    IN [setInputDevice(S3, i, getNewInputDevice(S3, i), TRUE) EXCEPT !.status = NO_ERROR]

\* startInput after the silenced clients are evicted: the conflict loop, then
\* the preemption of the active hotword captures; checked says that the
\* input's device is not virtual
startInputChecked(S, portId, silenced, checked) ==
    The({IF conflict # "NONE"
         THEN [S EXCEPT !.status = INVALID_OPERATION, !.conc = {conflict}]
         ELSE startInputActive(
                  IF checked
                  THEN preemptHotword(S, getActiveInputs(S), S.recs[portId].input)
                  ELSE S,
                  portId, silenced) :
         conflict \in {IF checked THEN captureConflict(S, getActiveInputs(S), portId)
                       ELSE "NONE"}})

\* startInput(portId, silenced, concurrency): S.status is the returned status,
\* S.conc the concurrency mask
startInput(S, portId, silenced, staleRead) ==
    IF portId \notin DOMAIN S.recs THEN [S EXCEPT !.status = BAD_VALUE, !.conc = {}]
    ELSE IF S.recs[portId].active THEN [S EXCEPT !.status = INVALID_OPERATION, !.conc = {}]
    ELSE
    LET i == S.recs[portId].input
        S0 == [S EXCEPT !.conc = {}]
        checked == ~is_virtual_input_device(S.ins[i].mDevice)
        inCall == checked /\ callOnModule(S, i)
    IN IF inCall THEN [S0 EXCEPT !.status = INVALID_OPERATION, !.conc = {"CALL"}]
       ELSE startInputChecked(
                IF checked /\ ~silenced
                THEN evictSilenced(S0, getActiveInputs(S0), i, staleRead) ELSE S0,
                portId, silenced, checked)

\* ------------------------------------------------------- patch entry points
\* patchDesc->mPatch.sources[0].id == patch->sources[0].id
sameSource(old, patch) ==
    /\ (old.kind = "mix2dev") = (patch.kind = "mix2dev")
    /\ IF patch.kind = "mix2dev" THEN old.mix = patch.mix ELSE old.src = patch.src

\* createAudioPatch after setOutputDevice / setInputDevice: "if (index >= 0)"
\* the patch takes the caller's uid, else INVALID_OPERATION
createAudioPatchDone(S, uid) ==
    IF S.hnd \in DOMAIN S.patches
    THEN [S EXCEPT !.patches[S.hnd].mUid = uid, !.status = NO_ERROR]
    ELSE [S EXCEPT !.status = INVALID_OPERATION]

\* createAudioPatch, device to device, after the transport's createAudioPatch
createDevicePatchDone(S) ==
    IF S.status # NO_ERROR THEN [S EXCEPT !.status = INVALID_OPERATION] ELSE S

\* createAudioPatch(patch, handle, uid): S.hnd is *handle on return.  A device to
\* device request names devices of one HW module (no software bridge).
createAudioPatch(S, patch, handle, uid) ==
    LET found == handle \in DOMAIN S.patches
        S0 == [S EXCEPT !.hnd = IF found THEN handle ELSE NONE]
        fail(st) == [S0 EXCEPT !.status = st]
    IN IF found /\ S.patches[handle].mUid # mUidCached /\ uid # S.patches[handle].mUid
       THEN [S EXCEPT !.status = INVALID_OPERATION, !.hnd = handle]
       ELSE IF patch.kind = "mix2dev"
       THEN IF patch.mix \notin DOMAIN S.outs THEN fail(BAD_VALUE)
            ELSE IF found /\ ~sameSource(S.patches[handle].mPatch, patch) THEN fail(BAD_VALUE)
            ELSE IF ~(patch.sinks \subseteq S.availOut) THEN fail(BAD_VALUE)
            ELSE IF ~(patch.sinks \subseteq supportedDevices(patch.mix)) \/ patch.sinks = {}
                 THEN fail(INVALID_OPERATION)
            ELSE createAudioPatchDone(
                     setOutputDevice(S0, patch.mix, patch.sinks, TRUE, 0, TRUE), uid)
       ELSE IF patch.kind = "dev2mix"
       THEN IF patch.mix \notin DOMAIN S.ins THEN fail(BAD_VALUE)
            ELSE IF found /\ ~(S.patches[handle].mPatch.kind = "dev2mix"
                               /\ S.patches[handle].mPatch.mix = patch.mix)
                 THEN fail(BAD_VALUE)
            ELSE IF patch.src \notin S.availIn THEN fail(BAD_VALUE)
            ELSE IF patch.src \notin InputProfile(S.ins[patch.mix].profile).supported
                 THEN fail(INVALID_OPERATION)
            ELSE createAudioPatchDone(setInputDevice(S0, patch.mix, {patch.src}, TRUE), uid)
       ELSE IF found /\ ~sameSource(S.patches[handle].mPatch, patch) THEN fail(BAD_VALUE)
            ELSE IF patch.src \notin S.availIn THEN fail(BAD_VALUE)
            ELSE IF ~(patch.sinks \subseteq S.availOut) THEN fail(BAD_VALUE)
            ELSE createDevicePatchDone(installPatchAt(S0, S0.hnd, patch, 0, uid))

\* a faulty release that leaves the patch with the uid of its last owner
releaseAudioPatchKeepsOwner(S, handle, uid) ==
    IF handle \notin DOMAIN S.patches THEN [S EXCEPT !.status = BAD_VALUE]
    ELSE IF S.patches[handle].mUid # mUidCached /\ uid # S.patches[handle].mUid
    THEN [S EXCEPT !.status = INVALID_OPERATION]
    ELSE LET patch == S.patches[handle].mPatch
             S1 == [S EXCEPT !.hnd = NONE]
         IN IF patch.kind = "mix2dev"
            THEN IF patch.mix \notin DOMAIN S1.outs THEN [S1 EXCEPT !.status = BAD_VALUE]
                 ELSE [setOutputDevice(S1, patch.mix, getNewOutputDevice(S1, patch.mix, TRUE),
                                       TRUE, 0, TRUE)
                          EXCEPT !.status = NO_ERROR]
            ELSE IF patch.kind = "dev2mix"
            THEN IF patch.mix \notin DOMAIN S1.ins THEN [S1 EXCEPT !.status = BAD_VALUE]
                 ELSE [setInputDevice(S1, patch.mix, getNewInputDevice(S1, patch.mix), TRUE)
                          EXCEPT !.status = NO_ERROR]
            ELSE IF patch.kind = "source" THEN [S1 EXCEPT !.status = BAD_VALUE]
            ELSE [Log(nextAudioPortGeneration(
                          [afReleaseAudioPatch(S1, S1.patches[handle].mAfPatchHandle, 0)
                              EXCEPT !.patches = removeKey(@, handle)]),
                      [f |-> "onAudioPatchListUpdate"])
                     EXCEPT !.status = NO_ERROR]

\* releaseAudioPatch(handle, uid)
\* releaseAudioPatch of a patch that the caller may release
releaseAudioPatchOwned(S, handle) ==
    LET patch == S.patches[handle].mPatch
        S1 == [S EXCEPT !.patches[handle].mUid = mUidCached, !.hnd = NONE]
    IN IF patch.kind = "mix2dev"
       THEN IF patch.mix \notin DOMAIN S1.outs THEN [S1 EXCEPT !.status = BAD_VALUE]
            ELSE [setOutputDevice(S1, patch.mix, getNewOutputDevice(S1, patch.mix, TRUE),
                                  TRUE, 0, TRUE)
                     EXCEPT !.status = NO_ERROR]
       ELSE IF patch.kind = "dev2mix"
       THEN IF patch.mix \notin DOMAIN S1.ins THEN [S1 EXCEPT !.status = BAD_VALUE]
            ELSE [setInputDevice(S1, patch.mix, getNewInputDevice(S1, patch.mix), TRUE)
                     EXCEPT !.status = NO_ERROR]
       ELSE IF patch.kind = "source" THEN [S1 EXCEPT !.status = BAD_VALUE]
       ELSE [Log(nextAudioPortGeneration(
                     [afReleaseAudioPatch(S1, S1.patches[handle].mAfPatchHandle, 0)
                         EXCEPT !.patches = removeKey(@, handle)]),
                 [f |-> "onAudioPatchListUpdate"])
                EXCEPT !.status = NO_ERROR]

\* a faulty releaseAudioPatch that does not look at the caller
releaseAudioPatchAnyCaller(S, handle, uid) ==
    IF handle \notin DOMAIN S.patches THEN [S EXCEPT !.status = BAD_VALUE]
    ELSE releaseAudioPatchOwned(S, handle)

releaseAudioPatch(S, handle, uid) ==
    IF handle \notin DOMAIN S.patches THEN [S EXCEPT !.status = BAD_VALUE]
    ELSE IF S.patches[handle].mUid # mUidCached /\ uid # S.patches[handle].mUid
    THEN [S EXCEPT !.status = INVALID_OPERATION]
    ELSE releaseAudioPatchOwned(S, handle)

\* getMsdPatches(): the patches whose source is a device of the MSD module
getMsdPatches(S) == {h \in DOMAIN S.patches : S.patches[h].mPatch.src = MsdInDevice}

\* buildMsdPatch(outputDevice): from the input device of the MSD module to the
\* output device
buildMsdPatch(S, outputDevice) ==
    [kind |-> "dev2dev", mix |-> NONE, src |-> MsdInDevice, sinks |-> outputDevice]

\* setMsdPatch(outputDevice): S.status is the returned status
setMsdPatch(S, outputDevice) ==
    LET patch == buildMsdPatch(S, IF outputDevice = {}
                                  THEN getDeviceForStrategy(S, "MEDIA", FALSE)
                                  ELSE outputDevice)
        msdPatches == SetToSeq(getMsdPatches(S))
    IN IF msdPatches # << >> /\ S.patches[msdPatches[1]].mPatch = patch
       THEN [S EXCEPT !.status = NO_ERROR]
       ELSE installPatchAt(IF msdPatches # << >>
                           THEN releaseAudioPatch(S, msdPatches[1], mUidCached)
                           ELSE S,
                           NONE, patch, 0, mUidCached)

\* ------------------------------------------------------------ capture open
\* getInputProfile(device, ..., flags): the first profile that supports the
\* device with the requested flags (IOProfile::isCompatibleProfile)
getInputProfile(device, mmap) ==
    LET fit == {pr \in InputProfileIds : /\ device \subseteq InputProfile(pr).supported
                                         /\ InputProfile(pr).mmap = mmap}
    IN IF fit = {} THEN NONE ELSE CHOOSE pr \in fit : \A q \in fit : pr <= q

\* getInputForDevice: the loop that retries getInputProfile without the flags
getInputProfileRetry(device, mmap) ==
    IF getInputProfile(device, mmap) # NONE \/ ~mmap THEN getInputProfile(device, mmap)
    ELSE getInputProfile(device, FALSE)

\* the record client getInputForAttr adds to the input
newRecordClient(attr, input) ==
    [input |-> input, source |-> attr.source, session |-> attr.session, uid |-> attr.uid,
     mmap |-> attr.mmap, pref |-> attr.pref, active |-> FALSE, silenced |-> FALSE]

\* the descriptor of a newly opened input
newInput(device, profile) ==
    [mDevice |-> device, patch |-> NONE, profile |-> profile,
     mmap |-> InputProfile(profile).mmap, preempted |-> {}]

\* addInput(input, inputDesc)
addInput(S, input, inputDesc) ==
    nextAudioPortGeneration([S EXCEPT !.ins = addKey(@, input, inputDesc)])

\* a faulty getInputForDevice that leaves the input it rejects open
openedInputForLeftOpen(S, portId, attr, device, profile, exact) ==
    IF S.status # NO_ERROR \/ S.ret = NONE \/ ~exact
    THEN [S EXCEPT !.status = INVALID_OPERATION]
    ELSE [Log(addInput(S, S.ret, newInput(device, profile)),
              [f |-> "onAudioPortListUpdate"])
             EXCEPT !.recs = addKey(@, portId, newRecordClient(attr, S.ret)),
                    !.status = NO_ERROR]

\* getInputForDevice after inputDesc->open: "only accept input with the exact
\* requested set of parameters"; exact tells whether the configuration that the
\* transport opened is the one requested
openedInputFor(S, portId, attr, device, profile, exact) ==
    IF S.status # NO_ERROR \/ S.ret = NONE \/ ~exact
    THEN [(IF S.ret # NONE THEN afClose(S, S.ret) ELSE S)
             EXCEPT !.status = INVALID_OPERATION]
    ELSE [Log(addInput(S, S.ret, newInput(device, profile)),
              [f |-> "onAudioPortListUpdate"])
             EXCEPT !.recs = addKey(@, portId, newRecordClient(attr, S.ret)),
                    !.status = NO_ERROR]

\* getInputForDevice: the input opened on the profile and its client added
openInputFor(S, portId, attr, device, profile) ==
    IF device = {} THEN [S EXCEPT !.status = BAD_VALUE]
    ELSE IF profile = NONE THEN [S EXCEPT !.status = INVALID_OPERATION]
    ELSE openedInputFor(afOpenInput(S), portId, attr, device, profile,
                        S.opens = << >> \/ Head(S.opens) = "ok")

\* getInputForAttr, "special case for mmap capture: if an input IO handle is
\* specified, we reuse this input if possible"
reuseMmapInput(S, portId, attr) ==
    LET clients == SetToSeq({p \in DOMAIN S.recs : /\ S.recs[p].input = attr.input
                                                   /\ S.recs[p].session = attr.session})
    IN IF attr.input \notin DOMAIN S.ins THEN [S EXCEPT !.status = BAD_VALUE]
       ELSE IF clients = << >> THEN [S EXCEPT !.status = BAD_VALUE]
       ELSE IF \E n \in 2..Len(clients) :
                   attr.uid # S.recs[clients[n]].uid /\ ~S.recs[clients[n]].silenced
       THEN [S EXCEPT !.status = INVALID_OPERATION]
       ELSE [S EXCEPT !.recs = addKey(@, portId, newRecordClient(attr, attr.input)),
                      !.status = NO_ERROR]

\* getInputForAttr with getInputForDevice: attr carries the source, the session,
\* the uid, the flags, the requested device and, for MMAP, the input to reuse;
\* portId is the new client's port
getInputForAttr(S, portId, attr) ==
    IF attr.mmap /\ attr.input # NONE THEN reuseMmapInput(S, portId, attr)
    ELSE The({openInputFor(S, portId, attr, device,
                           getInputProfileRetry(device, attr.mmap)) :
              device \in {IF getDeviceFromId(S.availIn, attr.pref) # NoDevice
                          THEN {getDeviceFromId(S.availIn, attr.pref)}
                          ELSE getDeviceAndMixForInputSource(S, attr.source)}})

\* -------------------------------------------------- phone state, force use
MUTE_TIME_MS == 2000
TOUCH_SOUND_FIXED_DELAY_MS == 100

\* mCallTxPatch: release existing patch if any
releaseCallTxPatch(S) ==
    IF S.callTx.on
    THEN [afReleaseAudioPatch(S, S.callTx.af, 0) EXCEPT !.callTx.on = FALSE] ELSE S

\* a faulty release that leaves the TX patch on the transport
releaseCallPatchesRxOnly(S) ==
    IF S.callRx.on
    THEN [afReleaseAudioPatch(S, S.callRx.af, 0) EXCEPT !.callRx.on = FALSE] ELSE S

\* mCallRxPatch / mCallTxPatch: release existing patch if any
releaseCallPatches(S) ==
    releaseCallTxPatch(
        IF S.callRx.on
        THEN [afReleaseAudioPatch(S, S.callRx.af, 0) EXCEPT !.callRx.on = FALSE] ELSE S)

\* createTelephonyPatch: "terminate active capture if on the same HW module as the
\* call TX source device"
RECURSIVE closeActiveOnModule(_, _, _)
closeActiveOnModule(S, activeInputs, module) ==
    IF activeInputs = << >> THEN S
    ELSE closeActiveOnModule(
             IF Head(activeInputs) \in DOMAIN S.ins
                /\ InputProfile(S.ins[Head(activeInputs)].profile).module = module
             THEN closeAll(S, recordClientsList(S, Head(activeInputs), TRUE,
                                                AUDIO_SOURCE_DEFAULT, FALSE))
             ELSE S,
             Tail(activeInputs), module)

\* createTelephonyPatch after the transport's createAudioPatch: the patch object
\* takes a unique handle but is not added to mAudioPatches
telephonyPatchMade(S, isRx, module) ==
    LET made == [on |-> S.status = NO_ERROR, af |-> S.ret, module |-> module]
        S3 == IF S.status = NO_ERROR THEN [S EXCEPT !.next = @ + 1] ELSE S
    IN IF isRx THEN [S3 EXCEPT !.callRx = made] ELSE [S3 EXCEPT !.callTx = made]

\* createTelephonyPatch(isRx, device, delayMs)
createTelephonyPatch(S, isRx, device, delayMs) ==
    LET dev == CHOOSE d \in device : TRUE
    IN telephonyPatchMade(
           afCreateAudioPatch(
               IF isRx THEN S
               ELSE closeActiveOnModule(S, getActiveInputs(S), DeviceModule(dev)),
               [kind |-> IF isRx THEN "rx" ELSE "tx", mix |-> NONE,
                src |-> IF isRx THEN "TEL_RX" ELSE dev,
                sinks |-> IF isRx THEN device ELSE {"TEL_TX"}],
               NONE, delayMs),
           isRx, IF isRx THEN NONE ELSE DeviceModule(dev))

\* updateCallRouting: the TX side, after the RX side left muteWaitMs in S.ret
updateCallRoutingTx(S, createTxPatch, txDevice, delayMs) ==
    [(IF createTxPatch THEN createTelephonyPatch(S, FALSE, txDevice, delayMs) ELSE S)
        EXCEPT !.ret = S.ret]

\* updateCallRouting(rxDevice, delayMs): S.ret is muteWaitMs
updateCallRouting(S, rxDevice, delayMs) ==
    LET legacy == supportedDevices(mPrimaryOutput) \cap S.availOut
                      \cap rxDevice # {}
    IN The({updateCallRoutingTx(
                IF legacy
                THEN setOutputDevice([releaseCallPatches(S) EXCEPT !.hnd = NONE],
                                     mPrimaryOutput, rxDevice, TRUE, delayMs, TRUE)
                ELSE [createTelephonyPatch(releaseCallPatches(S), TRUE, rxDevice, delayMs)
                         EXCEPT !.ret = 0],
                ~legacy \/ availablePrimaryInputDevices(S) \cap txDevice = {},
                txDevice, delayMs) :
            txDevice \in {getDeviceAndMixForInputSource(S, "VOICE_COMMUNICATION")}})

\* setPhoneState: a strategy muted on an output, and unmuted MUTE_TIME_MS later
muteStrategyForCall(S, strategy, desc) ==
    The({setStrategyMute(S1, strategy, FALSE, desc, MUTE_TIME_MS,
                         getDeviceForStrategy(S1, strategy, TRUE)) :
         S1 \in {setStrategyMute(S, strategy, TRUE, desc, 0, {})}})

\* setPhoneState: "mute media and sonification strategies" on every output
RECURSIVE muteForCall(_, _)
muteForCall(S, outputs) ==
    IF outputs = << >> THEN S
    ELSE The({muteForCall(S2, Tail(outputs)) :
              S2 \in {The({muteStrategyForCall(S1, "SONIFICATION", Head(outputs)) :
                           S1 \in {muteStrategyForCall(S, "MEDIA", Head(outputs))}})}})

\* the loop re-routing every output: one output set to newDevice
rerouteOutput(S, desc, newDevice, delayMs, forceVolumeReeval) ==
    The({IF forceVolumeReeval /\ newDevice # {}
         THEN applyStreamVolumes(S1, desc, newDevice, S1.ret, TRUE) ELSE S1 :
         S1 \in {IF S.phone # "IN_CALL" \/ desc # mPrimaryOutput
                 THEN setOutputDevice([S EXCEPT !.hnd = NONE], desc, newDevice,
                                      newDevice # {}, delayMs, TRUE)
                 ELSE S}})

\* setPhoneState / setForceUse: the loop re-routing every output; forceVolumeReeval
\* is false in setPhoneState, whose delay is 0
RECURSIVE rerouteOutputs(_, _, _, _)
rerouteOutputs(S, outputs, delayMs, forceVolumeReeval) ==
    IF outputs = << >> THEN S
    ELSE rerouteOutputs(
             rerouteOutput(S, Head(outputs), getNewOutputDevice(S, Head(outputs), TRUE),
                           delayMs, forceVolumeReeval),
             Tail(outputs), delayMs, forceVolumeReeval)

\* setPhoneState: every output re-routed, and accessibility invalidated when
\* entering a call
setPhoneStateReroute(S, state) ==
    IF is_state_in_call(state)
    THEN Log(rerouteOutputs(S, SetToSeq(DOMAIN S.outs), 0, FALSE),
             [f |-> "invalidateStream", stream |-> "ACCESSIBILITY"])
    ELSE rerouteOutputs(S, SetToSeq(DOMAIN S.outs), 0, FALSE)

\* setPhoneState: the call routed (or the primary output re-routed) to rx0, or
\* to the primary output's device when leaving a call with no device selected
setPhoneStateRoute(S, oldState, state, delayMs, rx0) ==
    LET force == (is_state_in_call(oldState) # is_state_in_call(state))
                 \/ (is_state_in_call(state) /\ state # oldState)
        rxDevice == IF is_state_in_call(oldState) /\ rx0 = {}
                    THEN S.outs[mPrimaryOutput].mDevice ELSE rx0
    IN setPhoneStateReroute(
           IF state = "IN_CALL" THEN updateCallRouting(S, rxDevice, delayMs)
           ELSE setOutputDevice(
                    [(IF oldState = "IN_CALL" THEN releaseCallPatches(S) ELSE S)
                        EXCEPT !.hnd = NONE],
                    mPrimaryOutput, rxDevice, force, 0, TRUE),
           state)

\* setPhoneState after checkForDeviceAndOutputChanges: the media and
\* sonification strategies muted for a call, delayMs from their latencies
setPhoneStateMute(S, oldState, state) ==
    LET delayMs == IF is_state_in_call(state)
                      /\ \E o \in DOMAIN S.outs : isStrategyActive(S, o, "MEDIA")
                             \/ isStrategyActive(S, o, "SONIFICATION")
                   THEN 2 * maxLatencyOf({o \in DOMAIN S.outs :
                            isStrategyActive(S, o, "MEDIA")
                            \/ isStrategyActive(S, o, "SONIFICATION")})
                   ELSE 0
    IN The({setPhoneStateRoute(S3, oldState, state, delayMs,
                               getNewOutputDevice(S3, mPrimaryOutput, FALSE)) :
            S3 \in {IF is_state_in_call(state)
                    THEN muteForCall(S, SetToSeq(DOMAIN S.outs)) ELSE S}})

setPhoneState(S, state) ==
    IF state = S.phone THEN S
    ELSE setPhoneStateMute(
             checkForDeviceAndOutputChanges(
                 IF is_state_in_call(S.phone)
                 THEN Log([S EXCEPT !.phone = state],
                          [f |-> "invalidateStream", stream |-> "ACCESSIBILITY"])
                 ELSE [S EXCEPT !.phone = state]),
             S.phone, state)

\* setForceUse: one active input re-routed, or closed when its profile does not
\* support the new device
rerouteInput(S, i, newDevice) ==
    IF InputProfile(S.ins[i].profile).supported \cap newDevice # {}
    THEN setInputDevice([S EXCEPT !.hnd = NONE], i, newDevice, FALSE)
    ELSE closeInput(S, i)

\* setForceUse: the loop over the active inputs
RECURSIVE rerouteInputs(_, _)
rerouteInputs(S, activeInputs) ==
    IF activeInputs = << >> THEN S
    ELSE rerouteInputs(rerouteInput(S, Head(activeInputs),
                                    getNewInputDevice(S, Head(activeInputs))),
                       Tail(activeInputs))

\* setForceUse after the call is re-routed: every output and active input
\* re-routed
setForceUseReroute(S, usage, delayMs) ==
    The({rerouteInputs(S3, getActiveInputs(S3)) :
         S3 \in {rerouteOutputs(S, SetToSeq(DOMAIN S.outs), delayMs,
                                usage \in {"COMMUNICATION", "SYSTEM"})}})

\* setForceUse after checkForDeviceAndOutputChanges: the call re-routed
setForceUseCall(S, usage, delayMs) ==
    setForceUseReroute(
        IF S.phone = "IN_CALL"
        THEN updateCallRouting(S, getNewOutputDevice(S, mPrimaryOutput, TRUE), delayMs)
        ELSE [S EXCEPT !.ret = 0],
        usage, delayMs)

setForceUse(S, usage, config) ==
    IF config = S.force[usage] THEN S
    ELSE setForceUseCall(checkForDeviceAndOutputChanges([S EXCEPT !.force[usage] = config]),
                         usage, IF usage = "COMMUNICATION" THEN TOUCH_SOUND_FIXED_DELAY_MS
                                ELSE 0)

\* ------------------------------------------------------------ construction
\* the descriptor of a newly opened output; config stands for its sampling
\* rate, format and channel mask
newOutput(device) ==
    [mDevice |-> device, mMuteCount |-> Table(StreamSet, [s \in StreamSet |-> 0]), patch |-> NONE,
     mCurVolume |-> Table(StreamSet, [s \in StreamSet |-> -1]),
     mStrategyMutedByDevice |-> Table(StrategySet, [s \in StrategySet |-> FALSE]),
     mStopTime |-> FALSE,
     mDirectOpenCount |-> 0, mDirectClientSession |-> NONE, config |-> "48k"]

\* the manager as its constructor leaves it, before initialize()
Constructed ==
    [outs |-> << >>, tracks |-> << >>, ins |-> << >>, recs |-> << >>, patches |-> << >>,
     sources |-> << >>, src |-> NONE, availOut |-> OutDevices, availIn |-> InDevices,
     next |-> 1, gen |-> 1, phone |-> "NORMAL",
     force |-> [u \in {"MEDIA", "SYSTEM", "COMMUNICATION", "RECORD"} |-> "NONE"],
     cache |-> [s \in StrategySet |-> {}], prevOuts |-> {},
     beacon |-> [muteRef |-> 0, playRef |-> 0, muted |-> FALSE], lastVoice |-> -1,
     index |-> [s \in StreamSet |-> (AUDIO_DEVICE_OUT_DEFAULT_FOR_VOLUME :> 1)],
     suspended |-> FALSE,
     af |-> [live |-> {}, next |-> 1, nextIo |-> FirstInput, ios |-> {}],
     callRx |-> [on |-> FALSE, af |-> NONE, module |-> NONE],
     callTx |-> [on |-> FALSE, af |-> NONE, module |-> NONE],
     calls |-> << >>, oracle |-> << >>, opens |-> << >>, ret |-> 0, hnd |-> NONE,
     pd |-> NONE, found |-> {}, left |-> 0, status |-> NO_ERROR, conc |-> {},
     port |-> NONE, flags |-> {}]

\* initialize(): one output opened on its profile (addOutput) and routed
openOutput(S, o, profileType) ==
    The({setOutputDevice([S1 EXCEPT !.hnd = NONE], o, profileType, TRUE, 0, TRUE) :
         S1 \in {nextAudioPortGeneration(
                     applyStreamVolumes(
                         [afOpenOutput(S, o)
                             EXCEPT !.outs = addKey(@, o, newOutput(profileType))],
                         o, {}, 0, TRUE))}})

\* initialize(): the profiles that are not direct and support an available
\* device
openedAtBoot ==
    {o \in OutputIds : /\ ~OutputProfile(o).direct
                       /\ supportedDevices(o) \cap Constructed.availOut # {}}

\* initialize(): the loop opening one output per profile that is not direct, on
\* the default device when the profile supports it
initialize ==
    rememberOutputs(
        updateDevicesAndOutputs(
            ForEach(Constructed, 1, Cardinality(openedAtBoot),
                    LAMBDA S, n :
                        LET o == SetToSeq(openedAtBoot)[n]
                        IN openOutput(S, o,
                               IF mDefaultOutputDevice \in supportedDevices(o)
                               THEN {mDefaultOutputDevice}
                               ELSE {OutputProfile(o).first}))))

\* -------------------------------------------------------- device connection
AVAILABLE == "AVAILABLE"
UNAVAILABLE == "UNAVAILABLE"

\* the devices that are plugged and unplugged; the others are attached
RemovableOutDevices == {"HS", "USB"}
RemovableInDevices == {"SCOMIC"}

\* addOutput(output, outputDesc)
addOutput(S, output, outputDesc) ==
    nextAudioPortGeneration(
        applyStreamVolumes([S EXCEPT !.outs = addKey(@, output, outputDesc)],
                           output, {}, 0, TRUE))

\* closeOutput(output), the end: "MSD patches may have been released to support
\* a non-MSD direct output. Reset MSD patch if no direct outputs are open."
resetMsdPatch(S) ==
    IF getMsdAudioOutDeviceTypes(S) # {}
       /\ \A o \in DOMAIN S.outs : "DIRECT" \notin OutputProfile(o).flags
    THEN [setMsdPatch(S, {}) EXCEPT !.status = S.status, !.ret = S.ret, !.hnd = S.hnd,
                                   !.pd = S.pd]
    ELSE S

\* closeOutput(output): no output of the catalog is duplicated; the clients of
\* the descriptor go with it
closeOutput(S, output) ==
    IF output \notin DOMAIN S.outs THEN S
    ELSE LET S1 == nextAudioPortGeneration(S)
             key == S1.outs[output].patch
             S2 == IF key \in DOMAIN S1.patches
                   THEN Log([afReleaseAudioPatch(S1, S1.patches[key].mAfPatchHandle, 0)
                                EXCEPT !.patches = removeKey(@, key)],
                            [f |-> "onAudioPatchListUpdate"])
                   ELSE S1
         IN resetMsdPatch(
                rememberOutputs(
                    [afClose(S2, output)
                        EXCEPT !.outs = removeKey(@, output),
                               !.tracks = Table({q \in DOMAIN @ : @[q].output # output}, @)]))

\* closeAllInputs()
closeAllInputs(S) ==
    LET inputs == SetToSeq(DOMAIN S.ins)
        patched == {i \in DOMAIN S.ins : S.ins[i].patch \in DOMAIN S.patches}
        closed == ForEach(S, 1, Len(inputs),
                      LAMBDA T, n :
                          afClose(IF T.ins[inputs[n]].patch \in DOMAIN T.patches
                                  THEN [afReleaseAudioPatch(
                                            T, T.patches[T.ins[inputs[n]].patch].mAfPatchHandle,
                                            0)
                                           EXCEPT !.patches =
                                               removeKey(@, T.ins[inputs[n]].patch)]
                                  ELSE T,
                                  inputs[n]))
        S1 == nextAudioPortGeneration([closed EXCEPT !.ins = << >>, !.recs = << >>])
    IN IF patched # {} THEN Log(S1, [f |-> "onAudioPatchListUpdate"]) ELSE S1

\* broadcastDeviceConnectionState(device, state, address)
broadcastDeviceConnectionState(S, device, state) ==
    Log(S, [f |-> "setParameters", device |-> device, state |-> state])

\* IOProfile::canOpenNewIo: an output profile has at most one stream open, an
\* input profile any number
canOpenNewOutput(S, profile) == profile \notin DOMAIN S.outs

\* a faulty round that keeps in the list a profile whose output did not open
checkOutputsForProfileKept(S, profile, device) ==
    IF profile \in S.found THEN S
    ELSE IF ~canOpenNewOutput(S, profile) THEN S
    ELSE The({IF T.status = NO_ERROR
              THEN [addOutput(T, T.ret, newOutput({device}))
                       EXCEPT !.found = @ \cup {T.ret}]
              ELSE T :
              T \in {afOpenOutput(S, profile)}})

\* checkOutputsForDevice, connection: one round of the loop over the profiles
\* that support the device.  S.found is the list of outputs, S.left the number of
\* profiles left in the list.  The profiles of the catalog have static audio
\* profiles, and the one that is not direct stays open from initialize() on, so
\* the duplicating output is never asked for.
checkOutputsForProfile(S, profile, device) ==
    IF profile \in S.found THEN S
    ELSE IF ~canOpenNewOutput(S, profile) THEN S
    ELSE The({IF T.status = NO_ERROR
              THEN [addOutput(T, T.ret, newOutput({device}))
                       EXCEPT !.found = @ \cup {T.ret}]
              ELSE [T EXCEPT !.left = @ - 1] :
              T \in {afOpenOutput(S, profile)}})

\* checkOutputsForDevice(devDesc, state, outputs, address): S.found is outputs
checkOutputsForDevice(S, device, state) ==
    IF state = AVAILABLE
    THEN LET outputs == {o \in DOMAIN S.outs : device \in supportedDevices(o)}
             profiles == SetToSeq({p \in OutputIds : device \in supportedDevices(p)})
         IN IF profiles = << >> /\ outputs = {} THEN [S EXCEPT !.status = BAD_VALUE]
            ELSE The({[T EXCEPT !.status = IF T.left = 0 THEN BAD_VALUE ELSE NO_ERROR] :
                      T \in {ForEach([S EXCEPT !.found = outputs, !.left = Len(profiles)],
                                     1, Len(profiles),
                                     LAMBDA T, n :
                                         checkOutputsForProfile(T, profiles[n], device))}})
    ELSE [S EXCEPT !.found = {o \in DOMAIN S.outs :
                                  supportedDevices(o) \cap S.availOut = {}},
                   !.status = NO_ERROR]

\* checkInputsForDevice, connection: one round of the loop over the profiles
checkInputsForProfile(S, profile, device) ==
    IF \E i \in DOMAIN S.ins : S.ins[i].profile = profile THEN S
    ELSE The({IF T.status = NO_ERROR
              THEN [addInput(T, T.ret, newInput({device}, profile))
                       EXCEPT !.found = @ \cup {T.ret}]
              ELSE [T EXCEPT !.left = @ - 1] :
              T \in {afOpenInput(S)}})

\* checkInputsForDevice(devDesc, state, inputs, address): S.found is inputs
checkInputsForDevice(S, device, state) ==
    IF state = AVAILABLE
    THEN LET inputs == {i \in DOMAIN S.ins :
                            device \in InputProfile(S.ins[i].profile).supported}
             profiles == SetToSeq({pr \in InputProfileIds :
                                       device \in InputProfile(pr).supported})
         IN IF profiles = << >> /\ inputs = {} THEN [S EXCEPT !.status = BAD_VALUE]
            ELSE The({[T EXCEPT !.status = IF T.left = 0 THEN BAD_VALUE ELSE NO_ERROR] :
                      T \in {ForEach([S EXCEPT !.found = inputs, !.left = Len(profiles)],
                                     1, Len(profiles),
                                     LAMBDA T, n :
                                         checkInputsForProfile(T, profiles[n], device))}})
    ELSE [S EXCEPT !.found = {i \in DOMAIN S.ins :
                                  InputProfile(S.ins[i].profile).supported
                                      \cap S.availIn = {}},
                   !.status = NO_ERROR]

\* cleanUpForDevice(deviceDesc): the sources of the device stopped, the patches
\* that have the device as a source or a sink released, both from the last
cleanUpForDevice(S, device) ==
    LET sources == SetToSeq({p \in DOMAIN S.sources : S.sources[p].srcDevice = device})
        handles == SetToSeq({h \in DOMAIN S.patches :
                                 \/ S.patches[h].mPatch.src = device
                                 \/ device \in S.patches[h].mPatch.sinks})
    IN The({ForEach(S1, 1, Len(handles),
                    LAMBDA T, n :
                        LET h == handles[Len(handles) + 1 - n]
                        IN IF h \in DOMAIN T.patches
                           THEN releaseAudioPatch(T, h, T.patches[h].mUid)
                           ELSE T) :
            S1 \in {ForEach(S, 1, Len(sources),
                            LAMBDA T, n :
                                stopAudioSource(T, sources[Len(sources) + 1 - n]))}})

\* a faulty closing pass that leaves the outputs of a disconnected device open
closeListedOutputsIdleOnly(S, state, outputs) ==
    ForEach(S, 1, Len(outputs),
            LAMBDA T, n :
                IF OutputProfile(outputs[n]).direct
                   /\ T.outs[outputs[n]].mDirectOpenCount = 0
                THEN closeOutput(T, outputs[n])
                ELSE T)

\* setDeviceConnectionStateInt, output device: the outputs that
\* checkOutputsForDevice listed are closed "after device disconnection or direct
\* outputs that have been opened by checkOutputsForDevice() to query dynamic
\* parameters"
closeListedOutputs(S, state, outputs) ==
    ForEach(S, 1, Len(outputs),
            LAMBDA T, n :
                IF state = UNAVAILABLE
                   \/ (OutputProfile(outputs[n]).direct
                       /\ T.outs[outputs[n]].mDirectOpenCount = 0)
                THEN closeOutput(T, outputs[n])
                ELSE T)

\* setDeviceConnectionStateInt, output device: "updateCallRouting" in a call
\* and the loop that routes every output again
routeAfterConnection(S) ==
    The({ForEach(S1, 1, Cardinality(DOMAIN S1.outs),
                 LAMBDA T, n :
                     LET desc == SetToSeq(DOMAIN S1.outs)[n]
                     IN IF T.phone # "IN_CALL" \/ desc # mPrimaryOutput
                        THEN setOutputDevice([T EXCEPT !.hnd = NONE], desc,
                                             getNewOutputDevice(T, desc, TRUE),
                                             \/ getMsdAudioOutDeviceTypes(S1) = {}
                                             \/ getMsdAudioOutDeviceTypes(S1)
                                                    # T.outs[desc].mDevice,
                                             0, TRUE)
                        ELSE T) :
         S1 \in {IF S.phone = "IN_CALL"
                 THEN updateCallRouting(S, getNewOutputDevice(S, mPrimaryOutput, FALSE), 0)
                 ELSE S}})

\* checkForDeviceAndOutputChanges(onOutputsChecked) with the callback of
\* setDeviceConnectionStateInt, up to the second A2DP check, which is run when
\* outputs were listed
closeListedAndCheck(S, state) ==
    The({IF S.found = {} THEN T ELSE checkA2dpSuspend(T) :
         T \in {closeListedOutputs(checkOutputForAllStrategies(checkA2dpSuspend(S)), state,
                                   SetToSeq(S.found))}})

\* setDeviceConnectionStateInt, output device, after checkOutputsForDevice
outputDeviceChanged(S, device, state) ==
    The({[Log(IF state = UNAVAILABLE THEN cleanUpForDevice(S2, device) ELSE S2,
              [f |-> "onAudioPortListUpdate"])
             EXCEPT !.status = NO_ERROR] :
         S2 \in {routeAfterConnection(
                     rememberOutputs(
                         updateDevicesAndOutputs(closeListedAndCheck(S, state))))}})

\* setDeviceConnectionStateInt, input device, after checkInputsForDevice
inputDeviceChanged(S, device, state) ==
    The({[Log(IF state = UNAVAILABLE THEN cleanUpForDevice(S2, device) ELSE S2,
              [f |-> "onAudioPortListUpdate"])
             EXCEPT !.status = NO_ERROR] :
         S2 \in {The({IF S1.phone = "IN_CALL"
                      THEN updateCallRouting(
                               S1, getNewOutputDevice(S1, mPrimaryOutput, FALSE), 0)
                      ELSE S1 :
                      S1 \in {rememberOutputs(updateDevicesAndOutputs(closeAllInputs(S)))}})}})

\* setDeviceConnectionStateInt(device, state, device_address, device_name)
setDeviceConnectionStateInt(S, device, state) ==
    IF device \in OutDevices \cup A2dpDevices
    THEN IF state = AVAILABLE
         THEN IF device \in S.availOut
              THEN [rememberOutputs(S) EXCEPT !.status = INVALID_OPERATION]
              ELSE The({IF T.status # NO_ERROR
                        THEN [broadcastDeviceConnectionState(
                                  [T EXCEPT !.availOut = @ \ {device}], device, UNAVAILABLE)
                                 EXCEPT !.status = INVALID_OPERATION]
                        ELSE outputDeviceChanged(T, device, state) :
                        T \in {checkOutputsForDevice(
                                   broadcastDeviceConnectionState(
                                       [rememberOutputs(S)
                                           EXCEPT !.availOut = @ \cup {device}],
                                       device, state),
                                   device, state)}})
         ELSE IF device \notin S.availOut
              THEN [rememberOutputs(S) EXCEPT !.status = INVALID_OPERATION]
              ELSE outputDeviceChanged(
                       checkOutputsForDevice(
                           [broadcastDeviceConnectionState(rememberOutputs(S), device, state)
                               EXCEPT !.availOut = @ \ {device}],
                           device, state),
                       device, state)
    ELSE IF device \notin InDevices THEN [S EXCEPT !.status = BAD_VALUE]
    ELSE IF state = AVAILABLE
         THEN IF device \in S.availIn THEN [S EXCEPT !.status = INVALID_OPERATION]
              ELSE The({IF T.status # NO_ERROR
                        THEN [broadcastDeviceConnectionState(T, device, UNAVAILABLE)
                                 EXCEPT !.status = INVALID_OPERATION]
                        ELSE inputDeviceChanged([T EXCEPT !.availIn = @ \cup {device}],
                                                device, state) :
                        T \in {checkInputsForDevice(
                                   broadcastDeviceConnectionState(S, device, state),
                                   device, state)}})
         ELSE IF device \notin S.availIn THEN [S EXCEPT !.status = INVALID_OPERATION]
              ELSE inputDeviceChanged(
                       [checkInputsForDevice(
                            broadcastDeviceConnectionState(S, device, state), device, state)
                           EXCEPT !.availIn = @ \ {device}],
                       device, state)

\* setDeviceConnectionState(device, state, device_address, device_name)
setDeviceConnectionState(S, device, state) ==
    The({[nextAudioPortGeneration(T) EXCEPT !.status = T.status] :
         T \in {setDeviceConnectionStateInt(S, device, state)}})


\* ---------------------------------------------------------------- actions
\* the manager state an entry point starts from; the generation is counted from
\* the start of the entry point
Cur(oracle) ==
    [outs |-> mOutputs, tracks |-> tracks, ins |-> mInputs, recs |-> records,
     patches |-> mAudioPatches, sources |-> mAudioSources, src |-> NONE,
     availOut |-> mAvailableOutputDevices, availIn |-> mAvailableInputDevices,
     next |-> nextUniqueId, gen |-> 0, phone |-> phoneState,
     force |-> forceUse, cache |-> mDeviceForStrategy, prevOuts |-> DOMAIN mOutputs,
     beacon |-> beacon, lastVoice |-> mLastVoiceVolume, index |-> mVolumeCurves,
     suspended |-> mA2dpSuspended, af |-> af,
     callRx |-> mCallRxPatch, callTx |-> mCallTxPatch,
     calls |-> << >>, oracle |-> oracle, opens |-> << >>, ret |-> 0, hnd |-> NONE,
     pd |-> NONE, found |-> {}, left |-> 0, status |-> NO_ERROR, conc |-> {},
     port |-> NONE, flags |-> {}]

\* the same, with the outcomes of the transport's next open calls
CurOpen(opens) == [Cur(<< >>) EXCEPT !.opens = opens]

\* what the trace of an entry point shows about its installPatch and
\* setStreamMute calls
Flags(calls) ==
    LET has(P(_)) == \E n \in 1..Len(calls) : P(calls[n])
        attached(e) == e.f = "installPatch" /\ e.attached
        dup(e) == e.f = "installPatch" /\ e.attached /\ (e.afGiven # e.afOld \/ e.gained)
        atZero(e) == e.f = "setStreamMute" /\ ~e.on /\ e.count = 0
        atZeroChanged(e) == atZero(e) /\ (e.changed \/ e.sent > 0)
        whileMuted(e) == e.f = "setStreamVolume" /\ e.count > 0
        toZero(e) == e.f = "setStreamMute" /\ ~e.on /\ e.count = 1 /\ e.changed
        notCurrent(e) == toZero(e) /\ e.volume # e.current
        notGiven(e) == toZero(e) /\ ~e.refused /\ e.volume # e.given
    IN (IF has(attached) THEN {"installAttached"} ELSE {})
       \cup (IF has(dup) THEN {"installDup"} ELSE {})
       \cup (IF has(atZero) THEN {"unmuteAtZero"} ELSE {})
       \cup (IF has(atZeroChanged) THEN {"unmuteAtZeroChanged"} ELSE {})
       \cup (IF has(whileMuted) THEN {"volumeWhileMuted"} ELSE {})
       \cup (IF has(notCurrent) THEN {"unmuteNotCurrent"} ELSE {})
       \cup (IF has(notGiven) THEN {"unmuteNotGiven"} ELSE {})

\* the mute requests of a trace folded into the unmatched counts
Unmatched(count, calls, n) ==
    ForEach(count, n, Len(calls),
            LAMBDA c, i :
                LET e == calls[i]
                IN IF e.f # "setStreamMute" THEN c
                   ELSE IF e.on THEN [c EXCEPT ![e.io][e.stream] = @ + 1]
                   ELSE IF c[e.io][e.stream] > 0 THEN [c EXCEPT ![e.io][e.stream] = @ - 1]
                   ELSE c)

\* the counters of the model stay within its bounds
Bounded(T) ==
    /\ T.next <= MaxPatchHandle + 1
    /\ T.af.next <= MaxPatchHandle + 1
    /\ T.af.nextIo <= FirstInput + MaxInputs
    /\ T.beacon.muteRef <= MaxBeaconRef /\ T.beacon.playRef <= MaxBeaconRef
    /\ \A o \in DOMAIN T.outs : \A s \in StreamSet : T.outs[o].mMuteCount[s] <= MaxMuteCount

\* the entry points whose name and status the properties refer to
ObservedOps == {"startInput"}

\* an entry point returns: its result state becomes the manager's state
Commit(T, op, arg, more) ==
    /\ Bounded(T)
    /\ mOutputs' = T.outs
    /\ tracks' = T.tracks
    /\ mInputs' = T.ins
    /\ records' = T.recs
    /\ mAudioPatches' = T.patches
    /\ mAudioSources' = T.sources
    /\ mAvailableOutputDevices' = T.availOut
    /\ mAvailableInputDevices' = T.availIn
    /\ nextUniqueId' = T.next
    /\ phoneState' = T.phone
    /\ forceUse' = T.force
    /\ mDeviceForStrategy' = T.cache
    /\ beacon' = T.beacon
    /\ mLastVoiceVolume' = T.lastVoice
    /\ mVolumeCurves' = T.index
    /\ mA2dpSuspended' = T.suspended
    /\ mCallRxPatch' = T.callRx
    /\ mCallTxPatch' = T.callTx
    /\ af' = T.af
    /\ lastOp' = [op |-> IF op \in ObservedOps THEN op ELSE "", arg |-> arg,
                  conc |-> T.conc,
                  status |-> IF op \in ObservedOps THEN T.status ELSE NO_ERROR,
                  flags |-> Flags(T.calls) \cup more]
    /\ unmatched' = Unmatched(unmatched, T.calls, 1)

\* the track clients attached by getOutputForAttr: output, stream, requested device
TrackClient(p) ==
    CASE p = 1 -> [output |-> 1, stream |-> "MUSIC", pref |-> "SPK", active |-> FALSE]
      [] p = 2 -> [output |-> 1, stream |-> "DTMF", pref |-> NoDevice, active |-> FALSE]
      [] p = 3 -> [output |-> 1, stream |-> "ENFORCED_AUDIBLE", pref |-> "HS",
                   active |-> FALSE]
      [] OTHER -> [output |-> 1, stream |-> "RING", pref |-> NoDevice, active |-> FALSE]

InitManager(clients) ==
    \E I \in {initialize} :
        /\ mOutputs = I.outs
        /\ tracks = clients
        /\ mInputs = << >>
        /\ records = << >>
        /\ mAudioPatches = I.patches
        /\ mAudioSources = I.sources
        /\ mAvailableOutputDevices = I.availOut
        /\ mAvailableInputDevices = I.availIn
        /\ nextUniqueId = I.next
        /\ phoneState = "NORMAL"
        /\ forceUse = I.force
        /\ mDeviceForStrategy = I.cache
        /\ beacon = I.beacon
        /\ mLastVoiceVolume = I.lastVoice
        /\ mVolumeCurves = I.index
        /\ mA2dpSuspended = I.suspended
        /\ mCallRxPatch = I.callRx
        /\ mCallTxPatch = I.callTx
        /\ af = I.af
        /\ unmatched = [o \in OutputIds |-> [s \in StreamSet |-> 0]]

InitWith(clients) ==
    /\ InitManager(clients)
    /\ lastOp = [op |-> "", arg |-> 0, status |-> NO_ERROR, conc |-> {},
                 flags |-> {}]

\* a track is started once: startOutput comes for a client that is not active
StartOutput(portId) ==
    /\ ~tracks[portId].active
    /\ Commit(startOutput(Cur(<< >>), portId), "startOutput", 0, {})

StartOutputTransportFails(portId) ==
    /\ ~tracks[portId].active
    /\ Commit(startOutput(Cur(<<FALSE>>), portId), "startOutput", 0, {})

StopOutput(portId) ==
    /\ tracks[portId].active
    /\ Commit(stopOutput(Cur(<< >>), portId), "stopOutput", 0, {})

\* the drain window of the stopped streams elapses
DrainElapsed ==
    /\ \E o \in DOMAIN mOutputs : mOutputs[o].mStopTime
    /\ mOutputs' = [o \in DOMAIN mOutputs |-> [mOutputs[o] EXCEPT !.mStopTime = FALSE]]
    /\ lastOp' = [op |-> "", arg |-> 0, status |-> NO_ERROR, conc |-> {}, flags |-> {}]
    /\ UNCHANGED <<tracks, mInputs, records, mAudioPatches, nextUniqueId, phoneState,
                   forceUse, mDeviceForStrategy, beacon, mLastVoiceVolume, mCallRxPatch,
                   mCallTxPatch, af, unmatched, mAudioSources,
                   mAvailableOutputDevices, mAvailableInputDevices, mVolumeCurves,
                   mA2dpSuspended>>

SetForceUse(usage, config) ==
    Commit(setForceUse(Cur(<< >>), usage, config), "setForceUse", 0, {})

SetPhoneState(state) ==
    /\ state # phoneState
    /\ Commit(setPhoneState(Cur(<< >>), state), "setPhoneState", 0, {})

CreateOutputPatch(o, device, handle, uid) ==
    \E oracle \in {<< >>, <<FALSE>>} :
        LET T == createAudioPatch(Cur(oracle),
                     [kind |-> "mix2dev", mix |-> o, src |-> NoDevice, sinks |-> {device}],
                     handle, uid)
        IN Commit(T, "createAudioPatch", 0, {})

ReleaseAudioPatch(handle, uid) ==
    Commit(releaseAudioPatch(Cur(<< >>), handle, uid), "releaseAudioPatch", 0, {})

NextOut ==
    \/ \E p \in DOMAIN tracks : StartOutput(p)
    \/ \E p \in DOMAIN tracks : StartOutputTransportFails(p)
    \/ \E p \in DOMAIN tracks : StopOutput(p)
    \/ DrainElapsed
    \/ \E state \in {"NORMAL", "IN_CALL"} : SetPhoneState(state)
    \/ \E config \in {"NONE", "SYSTEM_ENFORCED"} : SetForceUse("SYSTEM", config)
    \/ \E o \in DOMAIN mOutputs, device \in {"HS", "USB"}, uid \in AppUids,
          handle \in {NONE} \cup DOMAIN mAudioPatches :
              CreateOutputPatch(o, device, handle, uid)
    \/ \E handle \in DOMAIN mAudioPatches, uid \in AppUids \cup {mUidCached} :
           ReleaseAudioPatch(handle, uid)

\* the record clients attached by getInputForAttr: source, session, uid, flags
\* and requested device
RecordAttr(portId) ==
    LET source == CASE portId = 1 -> "MIC"
                    [] portId \in {2, 3} -> "HOTWORD"
                    [] portId = 4 -> "REMOTE_SUBMIX"
                    [] OTHER -> "MIC"
    IN [source |-> source, session |-> portId, uid |-> 2001, mmap |-> FALSE,
        pref |-> NoDevice, input |-> NONE]

GetInputForAttr(portId) ==
    /\ portId \notin DOMAIN records
    /\ Commit(getInputForAttr(Cur(<< >>), portId, RecordAttr(portId)), "getInputForAttr", 0, {})

StartInput(portId, silenced, staleRead) ==
    Commit(startInput(Cur(<< >>), portId, silenced, staleRead), "startInput", portId, {})

StopInput(portId) ==
    /\ records[portId].active
    /\ Commit(stopInput(Cur(<< >>), portId), "stopInput", 0, {})

ReleaseInput(portId) ==
    Commit(releaseInput(Cur(<< >>), portId), "releaseInput", 0, {})

CreateInputPatch(i, device, handle, uid) ==
    LET T == createAudioPatch(Cur(<< >>),
                 [kind |-> "dev2mix", mix |-> i, src |-> device, sinks |-> {}],
                 handle, uid)
    IN Commit(T, "createAudioPatch", 0, {})

NextIn ==
    \/ \E p \in 1..NumRecordClients : GetInputForAttr(p)
    \/ \E p \in DOMAIN records, silenced \in BOOLEAN, staleRead \in BOOLEAN :
           StartInput(p, silenced, staleRead)
    \/ \E p \in DOMAIN records : StopInput(p)
    \/ \E p \in DOMAIN records : ReleaseInput(p)

NextPatch ==
    \/ \E p \in 1..NumPatchClients : GetInputForAttr(p)
    \/ \E p \in DOMAIN records : StartInput(p, FALSE, FALSE)
    \/ \E p \in DOMAIN records : StopInput(p)
    \/ \E p \in DOMAIN records : ReleaseInput(p)
    \/ \E config \in {"NONE", "BT_SCO"} : SetForceUse("RECORD", config)
    \/ \E state \in {"NORMAL", "IN_CALL"} : SetPhoneState(state)
    \/ \E i \in DOMAIN mInputs, device \in {"MIC", "SCOMIC"}, uid \in AppUids,
          handle \in {NONE} \cup DOMAIN mAudioPatches :
              CreateInputPatch(i, device, handle, uid)
    \/ \E o \in DOMAIN mOutputs, uid \in AppUids,
          handle \in {NONE} \cup DOMAIN mAudioPatches :
              CreateOutputPatch(o, "HS", handle, uid)
    \/ \E handle \in DOMAIN mAudioPatches, uid \in AppUids \cup {mUidCached} :
           ReleaseAudioPatch(handle, uid)

InitIn == InitWith(<< >>)

SpecIn == InitIn /\ [][NextIn]_vars

SpecPatch == InitIn /\ [][NextPatch]_vars

InitOut == InitWith([p \in 1..NumTrackClients |-> TrackClient(p)])

SpecOut == InitOut /\ [][NextOut]_vars

\* ------------------------------------------------------------- properties
\* the manager's state between two entry points
Here == Cur(<< >>)

ActiveTracks(o) == {p \in DOMAIN tracks : tracks[p].output = o /\ tracks[p].active}

\* the stream's patch was installed by an identity other than the system's own
ExternalPatch(o) ==
    /\ mOutputs[o].patch \in DOMAIN mAudioPatches
    /\ mAudioPatches[mOutputs[o].patch].mUid # mUidCached

\* C2: after any sequence of public operations the device of every open output
\* is within the devices its profile supports; setOutputDevice, the only
\* writer of the device, leaves it within them.
C2_OutputDeviceSupported ==
    \A o \in DOMAIN mOutputs : mOutputs[o].mDevice \subseteq supportedDevices(o)

\* an output routed by a selection that asked for more than the output supports
C2_Witness ==
    \E o \in DOMAIN mOutputs :
        LET device == getNewOutputDevice(Here, o, FALSE)
        IN /\ ActiveTracks(o) # {}
           /\ ~(device \subseteq supportedDevices(o))
           /\ mOutputs[o].mDevice = device \cap supportedDevices(o)
           /\ mOutputs[o].patch \in DOMAIN mAudioPatches
           /\ mAudioPatches[mOutputs[o].patch].mPatch.sinks = mOutputs[o].mDevice

\* C4: the mute counter of a stream on an output is the number of mute
\* requests not yet matched by an unmute request and is never negative; an
\* unmute request that finds the counter at zero changes no state and sends
\* no volume command.
C4_MuteCounter ==
    /\ \A o \in DOMAIN mOutputs : \A s \in StreamSet :
           /\ mOutputs[o].mMuteCount[s] >= 0
           /\ mOutputs[o].mMuteCount[s] = unmatched[o][s]
    /\ "unmuteAtZeroChanged" \notin lastOp.flags

\* an entry point that unmuted a stream whose counter was zero, while another
\* stream is muted
C4_Witness ==
    /\ "unmuteAtZero" \in lastOp.flags
    /\ \E o \in DOMAIN mOutputs : \E s \in StreamSet : mOutputs[o].mMuteCount[s] > 0

\* the commands a trace sends to the transport: patch create and release,
\* parameter and volume commands
TransportCommands ==
    {"createAudioPatch", "releaseAudioPatch", "setParameters", "setStreamVolume",
     "setVoiceVolume"}

TransportCalls(calls) == {n \in 1..Len(calls) : calls[n].f \in TransportCommands}

\* the transport refused a patch in the trace
PatchRefused(calls) ==
    \E n \in 1..Len(calls) : calls[n].f = "createAudioPatch" /\ ~calls[n].ok

\* one run of device selection on an output: getNewOutputDevice followed by
\* setOutputDevice without force; calls is the trace of the run alone
selectDevice(S, o, fromCache) ==
    LET device == getNewOutputDevice(S, o, fromCache)
    IN [device |-> device,
        st |-> setOutputDevice([S EXCEPT !.hnd = NONE, !.calls = << >>], o, device,
                               FALSE, 0, TRUE)]

\* C5 (as stated): running device selection on an output twice in a row yields
\* the same device both times and the second run sends nothing to the
\* transport, whatever the transport answered to the first run.
C5_SecondRunSilent ==
    \A o \in DOMAIN mOutputs, fromCache \in BOOLEAN, oracle \in {<< >>, <<FALSE>>} :
        LET run1 == selectDevice(Cur(oracle), o, fromCache)
            run2 == selectDevice(run1.st, o, fromCache)
        IN run2.device = run1.device /\ TransportCalls(run2.st.calls) = {}

\* C5 (amended): running device selection on an output twice in a row yields
\* the same device both times; the second run sends nothing to the transport
\* when the first run leaves the output with a patch, and asks the transport for
\* the patch again when the first run leaves the output without one although a
\* device was selected (the transport refused the patch).
C5_SecondRunSilentWhenPatched ==
    \A o \in DOMAIN mOutputs, fromCache \in BOOLEAN, oracle \in {<< >>, <<FALSE>>} :
        LET run1 == selectDevice(Cur(oracle), o, fromCache)
            run2 == selectDevice(run1.st, o, fromCache)
        IN /\ run2.device = run1.device
           /\ IF run1.st.outs[o].patch = NONE /\ filterDevices(o, run1.device) # {}
              THEN /\ PatchRefused(run1.st.calls)
                   /\ \E n \in TransportCalls(run2.st.calls) :
                          run2.st.calls[n].f = "createAudioPatch"
              ELSE TransportCalls(run2.st.calls) = {}

\* a state where the first run re-routes the output and the second run is silent
C5_Witness ==
    \E o \in DOMAIN mOutputs, fromCache \in BOOLEAN :
        LET run1 == selectDevice(Here, o, fromCache)
            run2 == selectDevice(run1.st, o, fromCache)
        IN /\ \E n \in TransportCalls(run1.st.calls) :
                  run1.st.calls[n].f = "createAudioPatch"
           /\ run1.st.outs[o].mDevice # mOutputs[o].mDevice
           /\ run2.device = run1.device
           /\ TransportCalls(run2.st.calls) = {}

\* the strategy list of device selection as the priority order states it
C6_Order ==
    <<"PHONE", "SONIFICATION", "ENFORCED_AUDIBLE", "ACCESSIBILITY",
      "SONIFICATION_RESPECTFUL", "MEDIA", "DTMF", "TRANSMITTED_THROUGH_SPEAKER",
      "REROUTING">>

C6_Matches(o, strategy) ==
    \/ strategy = "PHONE" /\ is_state_in_call(phoneState)
    \/ \E p \in ActiveTracks(o) : getStrategy(tracks[p].stream) = strategy

C6_FirstMatch(o) ==
    IF C6_Matches(o, "ENFORCED_AUDIBLE") /\ forceUse["SYSTEM"] = "SYSTEM_ENFORCED"
    THEN "ENFORCED_AUDIBLE"
    ELSE IF \E n \in 1..Len(C6_Order) : C6_Matches(o, C6_Order[n])
    THEN C6_Order[CHOOSE n \in 1..Len(C6_Order) :
                      /\ C6_Matches(o, C6_Order[n])
                      /\ \A m \in 1..(n - 1) : ~C6_Matches(o, C6_Order[m])]
    ELSE STRATEGY_NONE

\* C6: getNewOutputDevice resolves in strict priority order: the current
\* device when the output's patch belongs to another identity than the
\* system's; else the explicit device of the active clients when all of them
\* have one; else the engine's device for the first matching strategy of the
\* list; and no device when nothing matches.
C6_PriorityOrder ==
    \A o \in DOMAIN mOutputs, fromCache \in BOOLEAN :
        LET device == getNewOutputDevice(Here, o, fromCache)
        IN IF ExternalPatch(o) THEN device = mOutputs[o].mDevice
           ELSE IF ActiveTracks(o) # {}
                   /\ \A p \in ActiveTracks(o) : tracks[p].pref # NoDevice
           THEN \E p \in ActiveTracks(o) : device = {tracks[p].pref}
           ELSE IF C6_FirstMatch(o) = STRATEGY_NONE THEN device = {}
           ELSE device = EngineDeviceForStrategy(Here, C6_FirstMatch(o))

\* C7: explicit routing never overrides default routing: while an active
\* client of an output has no explicit device and the output's patch is the
\* system's, the device selected for the output is the default one, never one
\* taken from another client's explicit device.
C7_ExplicitNeverOverridesDefault ==
    \A o \in DOMAIN mOutputs, fromCache \in BOOLEAN :
        LET device == getNewOutputDevice(Here, o, fromCache)
        IN (/\ ~ExternalPatch(o)
            /\ \E p \in ActiveTracks(o) : tracks[p].pref = NoDevice
            /\ \E p \in ActiveTracks(o) : device = {tracks[p].pref})
           => device = EngineDeviceForStrategy(Here, getNewOutputDeviceStrategy(Here, o))

MixOf(h) == mAudioPatches[h].mPatch.mix

C3_InputDeviceSupported ==
    \A i \in DOMAIN mInputs :
        mInputs[i].mDevice \subseteq InputProfile(mInputs[i].profile).supported

\* the request the capture claims are about: a client that is not active, on an
\* input whose device is not virtual, with no call transmit patch on the
\* input's module
CaptureRequest(p) ==
    LET i == records[p].input
    IN /\ ~records[p].active
       /\ ~is_virtual_input_device(mInputs[i].mDevice)
       /\ ~(mCallTxPatch.on
            /\ InputProfile(mInputs[i].profile).module = mCallTxPatch.module)

\* the active clients on another input than p's that the silenced rule leaves
\* alone when p starts
OthersActive(p, silenced) ==
    {q \in DOMAIN records :
        /\ q # p /\ records[q].active /\ records[q].input # records[p].input
        /\ (silenced \/ ~records[q].silenced)}

\* an active input that has preempted the session of p
Preempting(p, clients) ==
    \E q \in clients : /\ records[q].source = "HOTWORD"
                       /\ records[p].session \in mInputs[records[q].input].preempted

Activated(T, p) == p \in DOMAIN T.recs /\ T.recs[p].active

\* C9 (as stated): startInput on an input that is not virtual fails with the
\* conflict CAPTURE and does not activate the client whenever a capture that
\* is not hotword is active on another input and is not evicted by the
\* silenced rule, whether the request is hotword or not.
C9_CaptureConflict ==
    \A p \in DOMAIN records, silenced \in BOOLEAN, staleRead \in BOOLEAN :
        LET T == startInput(Here, p, silenced, staleRead)
        IN (/\ CaptureRequest(p)
            /\ \E q \in OthersActive(p, silenced) : records[q].source # "HOTWORD")
           => /\ T.status = INVALID_OPERATION
              /\ T.conc = {"CAPTURE"}
              /\ ~Activated(T, p)

\* C9 (amended): such a request always fails and does not activate the client;
\* the conflict it names is CAPTURE, except that a hotword request names
\* HOTWORD when an active hotword input that has preempted the request's
\* session is met before the capture that is not hotword.
C9_CaptureOrHotwordConflict ==
    \A p \in DOMAIN records, silenced \in BOOLEAN, staleRead \in BOOLEAN :
        LET T == startInput(Here, p, silenced, staleRead)
            others == {q \in DOMAIN records : q # p /\ records[q].active}
        IN (/\ CaptureRequest(p)
            /\ \E q \in OthersActive(p, silenced) : records[q].source # "HOTWORD")
           => /\ T.status = INVALID_OPERATION
              /\ ~Activated(T, p)
              /\ IF T.conc = {"HOTWORD"}
                 THEN /\ records[p].source = "HOTWORD"
                      /\ \E q \in others :
                            /\ records[q].source = "HOTWORD"
                            /\ records[p].session \in mInputs[records[q].input].preempted
                            /\ \E r \in OthersActive(p, silenced) :
                                   /\ records[r].source # "HOTWORD"
                                   /\ records[q].input < records[r].input
                 ELSE T.conc = {"CAPTURE"}
              /\ (records[p].source # "HOTWORD" \/ ~Preempting(p, others))
                     => T.conc = {"CAPTURE"}

\* a hotword request that failed with CAPTURE while an unsilenced capture that
\* is not hotword is active
C9_Witness ==
    /\ lastOp.op = "startInput" /\ lastOp.status = INVALID_OPERATION
    /\ lastOp.conc = {"CAPTURE"}
    /\ lastOp.arg \in DOMAIN records
    /\ records[lastOp.arg].source = "HOTWORD" /\ ~records[lastOp.arg].active
    /\ \E q \in DOMAIN records :
           records[q].active /\ ~records[q].silenced /\ records[q].source # "HOTWORD"

\* C10 (as stated): a hotword request fails if another hotword session is
\* active on a different input, unless that input has already preempted the
\* request's session.
C10_HotwordFailsUnlessPreempted ==
    \A p \in DOMAIN records, silenced \in BOOLEAN, staleRead \in BOOLEAN :
        LET T == startInput(Here, p, silenced, staleRead)
        IN (/\ CaptureRequest(p) /\ records[p].source = "HOTWORD"
            /\ \E q \in OthersActive(p, silenced) :
                   /\ records[q].source = "HOTWORD"
                   /\ records[p].session \notin mInputs[records[q].input].preempted)
           => T.status # NO_ERROR

\* C10 (amended): a hotword request made while another hotword session is
\* active on a different input fails, without activating the client, when such
\* an input has already preempted the request's session; when none has and no
\* other capture is active the request succeeds, the active hotword clients
\* are closed and their sessions are recorded as preempted on the request's
\* input.
C10_HotwordFailsWhenPreempted ==
    \A p \in DOMAIN records, silenced \in BOOLEAN, staleRead \in BOOLEAN :
        LET T == startInput(Here, p, silenced, staleRead)
            others == {q \in DOMAIN records : q # p /\ records[q].active}
            hotword == {q \in OthersActive(p, silenced) : records[q].source = "HOTWORD"}
        IN (CaptureRequest(p) /\ records[p].source = "HOTWORD" /\ hotword # {})
           => IF Preempting(p, hotword)
              THEN /\ T.status = INVALID_OPERATION
                   /\ T.conc \in {{"HOTWORD"}, {"CAPTURE"}}
                   /\ ~Activated(T, p)
              ELSE (/\ ~Preempting(p, others)
                    /\ \A q \in others : records[q].source = "HOTWORD")
                   => /\ T.status = NO_ERROR
                      /\ Activated(T, p)
                      /\ "PREEMPT" \in T.conc
                      /\ \A q \in hotword :
                             /\ q \notin DOMAIN T.recs
                             /\ records[q].session \in T.ins[records[p].input].preempted

\* a hotword request that failed with HOTWORD: an active hotword input had
\* preempted its session
C10_Witness ==
    /\ lastOp.op = "startInput" /\ lastOp.status = INVALID_OPERATION
    /\ lastOp.conc = {"HOTWORD"}
    /\ lastOp.arg \in DOMAIN records
    /\ records[lastOp.arg].source = "HOTWORD" /\ ~records[lastOp.arg].active
    /\ \E q \in DOMAIN records :
           /\ records[q].active /\ records[q].source = "HOTWORD"
           /\ records[lastOp.arg].session \in mInputs[records[q].input].preempted

\* ------------------------------------------------- capture during a call
\* a call is set up and torn down, with the communication and record devices
\* forced to the SCO headset or not, around capture clients
NumCallClients == 1

NextCall ==
    \/ \E p \in 1..NumCallClients : GetInputForAttr(p)
    \/ \E p \in DOMAIN records : StartInput(p, FALSE, FALSE)
    \/ \E p \in DOMAIN records : StopInput(p)
    \/ \E p \in DOMAIN records : ReleaseInput(p)
    \/ \E config \in {"NONE", "BT_SCO"} : SetForceUse("RECORD", config)
    \/ \E config \in {"NONE", "BT_SCO"} : SetForceUse("COMMUNICATION", config)
    \/ \E state \in {"NORMAL", "IN_CALL"} : SetPhoneState(state)

SpecCall == InitIn /\ [][NextCall]_vars

\* the step is a startInput of an inactive client p on a non-virtual input of
\* HW module m
StartsOnModule(p, m) ==
    /\ lastOp'.op = "startInput" /\ lastOp'.arg = p
    /\ p \in DOMAIN records /\ ~records[p].active
    /\ ~is_virtual_input_device(mInputs[records[p].input].mDevice)
    /\ InputProfile(mInputs[records[p].input].profile).module = m

\* the step rejected the client p with the CALL conflict
RejectedForCall(p) ==
    /\ lastOp'.status = INVALID_OPERATION
    /\ lastOp'.conc = {"CALL"}
    /\ p \in DOMAIN records' /\ ~records'[p].active

\* the HW module of the call's TX device: the source device of the TX patch, or
\* the primary module when the call is routed through the primary output alone
CallModule == IF mCallTxPatch.on THEN mCallTxPatch.module ELSE InputProfile(1).module

\* C11 as stated: during a call, however it is routed, startInput on a
\* non-virtual input of the call's HW module is rejected with CALL and the
\* client is not activated
C11_CallRejectsCapture ==
    [][\A p \in DOMAIN records :
           (phoneState = "IN_CALL" /\ StartsOnModule(p, CallModule))
               => RejectedForCall(p)]_vars

\* C11: while the call has a telephony TX patch, startInput on a non-virtual
\* input of the HW module of the patch's source device is rejected with CALL
\* and the client is not activated; while the call has no TX patch (legacy
\* routing through the primary output) startInput never reports CALL
C11_TxPatchRejectsCapture ==
    [][\A p \in DOMAIN records :
           /\ (mCallTxPatch.on /\ StartsOnModule(p, mCallTxPatch.module))
                  => RejectedForCall(p)
           /\ (~mCallTxPatch.on /\ lastOp'.op = "startInput")
                  => "CALL" \notin lastOp'.conc]_vars

\* a startInput was rejected with CALL while the call's TX patch is installed
C11_Witness ==
    /\ lastOp.op = "startInput" /\ lastOp.status = INVALID_OPERATION
    /\ lastOp.conc = {"CALL"}
    /\ phoneState = "IN_CALL" /\ mCallTxPatch.on
    /\ lastOp.arg \in DOMAIN records /\ ~records[lastOp.arg].active
    /\ InputProfile(mInputs[records[lastOp.arg].input].profile).module = mCallTxPatch.module

\* the clients marked silenced that are active on another input than p's
SilencedOthers(p) ==
    {q \in DOMAIN records :
        /\ q # p /\ records[q].active /\ records[q].silenced
        /\ records[q].input # records[p].input}

HotwordActive(p) ==
    {q \in DOMAIN records : q # p /\ records[q].active /\ records[q].source = "HOTWORD"}

\* no hotword client is left active on another input than p's
NoHotwordElsewhere(T, p) ==
    \A q \in DOMAIN T.recs :
        (T.recs[q].active /\ T.recs[q].source = "HOTWORD" /\ q # p)
            => T.recs[q].input = T.recs[p].input

\* C13 as stated: when startInput succeeds on an input that is not virtual
\* (concurrent capture with sound trigger not confirmed), every hotword client
\* that was active has been stopped and released, PREEMPT is reported and no
\* hotword client remains active on another input
C13_HotwordPreemptedAndReported ==
    \A p \in DOMAIN records, silenced \in BOOLEAN, staleRead \in BOOLEAN :
        LET T == startInput(Here, p, silenced, staleRead)
        IN (CaptureRequest(p) /\ T.status = NO_ERROR /\ HotwordActive(p) # {})
           => /\ \A q \in HotwordActive(p) : q \notin DOMAIN T.recs
              /\ "PREEMPT" \in T.conc
              /\ NoHotwordElsewhere(T, p)

\* C13: when startInput succeeds on an input that is not virtual, every hotword
\* client that was active has been stopped and released and none remains active
\* on another input; PREEMPT is reported when one of them is not subject to
\* the silenced rule (the new client is silenced, or the hotword client is not)
C13_HotwordPreempted ==
    \A p \in DOMAIN records, silenced \in BOOLEAN, staleRead \in BOOLEAN :
        LET T == startInput(Here, p, silenced, staleRead)
        IN (CaptureRequest(p) /\ T.status = NO_ERROR /\ HotwordActive(p) # {})
           => /\ \A q \in HotwordActive(p) : q \notin DOMAIN T.recs
              /\ (\E q \in HotwordActive(p) : silenced \/ ~records[q].silenced)
                     => "PREEMPT" \in T.conc
              /\ NoHotwordElsewhere(T, p)

\* a startInput succeeded and reported PREEMPT: its input holds the sessions of
\* the hotword clients it closed
C13_Witness ==
    /\ lastOp.op = "startInput" /\ lastOp.status = NO_ERROR
    /\ "PREEMPT" \in lastOp.conc
    /\ lastOp.arg \in DOMAIN records /\ records[lastOp.arg].active
    /\ mInputs[records[lastOp.arg].input].preempted # {}
    /\ \A s \in mInputs[records[lastOp.arg].input].preempted :
           \A q \in DOMAIN records : records[q].session = s => ~records[q].active

\* ------------------------------------------------- MMAP capture clients
\* the clients of one MMAP stream share its session; the second is a hotword
\* client
NumMmapClients == 2

MmapAttr(portId, input) ==
    [source |-> IF portId = 2 THEN "HOTWORD" ELSE "MIC", session |-> 1, uid |-> 2001,
     mmap |-> TRUE, pref |-> NoDevice, input |-> input]

\* getInputForAttr with AUDIO_INPUT_FLAG_MMAP_NOIRQ, for a new input or for the
\* input to reuse
GetMmapInputForAttr(portId, input) ==
    /\ portId \notin DOMAIN records
    /\ Commit(getInputForAttr(Cur(<< >>), portId, MmapAttr(portId, input)),
              "getInputForAttr", 0, {})

NextMmap ==
    \/ \E p \in 1..NumMmapClients, input \in {NONE} \cup DOMAIN mInputs :
           GetMmapInputForAttr(p, input)
    \/ GetInputForAttr(NumMmapClients + 3)
    \/ \E p \in DOMAIN records, silenced \in BOOLEAN, staleRead \in BOOLEAN :
           StartInput(p, silenced, staleRead)
    \/ \E p \in DOMAIN records : StopInput(p)
    \/ \E p \in DOMAIN records : ReleaseInput(p)

SpecMmap == InitIn /\ [][NextMmap]_vars

\* p is an MMAP client about to start on an MMAP input that is already active
ReusesActiveMmap(p) ==
    /\ CaptureRequest(p) /\ records[p].mmap /\ mInputs[records[p].input].mmap
    /\ \E q \in DOMAIN records : q # p /\ records[q].input = records[p].input
                                 /\ records[q].active

\* C14: when the new client reuses an MMAP input that is already active, that
\* input causes no CAPTURE or HOTWORD conflict (a conflict needs another active
\* input) and none of its active clients is stopped, by the silenced eviction or
\* by the hotword preemption
C14_SameMmapInputExempt ==
    \A p \in DOMAIN records, silenced \in BOOLEAN, staleRead \in BOOLEAN :
        LET T == startInput(Here, p, silenced, staleRead)
            i == records[p].input
        IN ReusesActiveMmap(p)
           => /\ T.conc \cap {"CAPTURE", "HOTWORD"} # {}
                     => \E q \in DOMAIN records : records[q].active /\ records[q].input # i
              /\ \A q \in DOMAIN records :
                     (q # p /\ records[q].input = i /\ records[q].active)
                         => q \in DOMAIN T.recs /\ T.recs[q].active

\* C15: when the transport's createAudioPatch fails during setOutputDevice or
\* setInputDevice, the stream's device, its patch handle, the patch registry
\* and the port generation are as before the call
C15_FailedSwitchLeavesState ==
    /\ \A o \in DOMAIN mOutputs, device \in OutDevices, force \in BOOLEAN :
           LET T == setOutputDevice(Cur(<<FALSE>>), o, {device}, force, 0, TRUE)
           IN PatchRefused(T.calls)
              => /\ T.outs[o].mDevice = mOutputs[o].mDevice
                 /\ T.outs[o].patch = mOutputs[o].patch
                 /\ T.patches = mAudioPatches
                 /\ T.gen = Here.gen
    /\ \A i \in DOMAIN mInputs, device \in InDevices, force \in BOOLEAN :
           LET T == setInputDevice(Cur(<<FALSE>>), i, {device}, force)
           IN PatchRefused(T.calls)
              => /\ T.ins[i].mDevice = mInputs[i].mDevice
                 /\ T.ins[i].patch = mInputs[i].patch
                 /\ T.patches = mAudioPatches
                 /\ T.gen = Here.gen

\* the patches a caller may request in createAudioPatch: output to device,
\* device to input, device to device
PatchRequests ==
    {[kind |-> "mix2dev", mix |-> o, src |-> NoDevice, sinks |-> {d}] :
         o \in DOMAIN mOutputs, d \in OutDevices}
    \cup {[kind |-> "dev2mix", mix |-> i, src |-> d, sinks |-> {}] :
              i \in DOMAIN mInputs, d \in InDevices}
    \cup {[kind |-> "dev2dev", mix |-> NONE, src |-> s, sinks |-> {d}] :
              s \in InDevices, d \in OutDevices}

\* C16: when the transport's createAudioPatch fails during createAudioPatch,
\* the caller gets an error and every existing patch keeps its owner, for a new
\* patch and for the handle of an existing patch alike
C16_FailedCreateReportsError ==
    \A patch \in PatchRequests, handle \in {NONE} \cup DOMAIN mAudioPatches,
       uid \in AppUids :
        LET T == createAudioPatch(Cur(<<FALSE>>), patch, handle, uid)
        IN PatchRefused(T.calls)
           => /\ T.status # NO_ERROR
              /\ \A h \in DOMAIN mAudioPatches \cap DOMAIN T.patches :
                     T.patches[h].mUid = mAudioPatches[h].mUid

\* createAudioPatch for a device to device connection
CreateDevicePatch(src, sink, handle, uid) ==
    LET T == createAudioPatch(Cur(<< >>),
                 [kind |-> "dev2dev", mix |-> NONE, src |-> src, sinks |-> {sink}],
                 handle, uid)
    IN Commit(T, "createAudioPatch", 0, {})

NextRelease ==
    \/ StartOutput(1)
    \/ \E p \in 1..NumPatchClients : GetInputForAttr(p)
    \/ \E i \in DOMAIN mInputs, device \in {"MIC", "SCOMIC"}, uid \in AppUids,
          handle \in {NONE} \cup DOMAIN mAudioPatches :
              CreateInputPatch(i, device, handle, uid)
    \/ \E o \in DOMAIN mOutputs, uid \in AppUids,
          handle \in {NONE} \cup DOMAIN mAudioPatches :
              CreateOutputPatch(o, "HS", handle, uid)
    \/ \E uid \in AppUids, handle \in {NONE} \cup DOMAIN mAudioPatches :
           CreateDevicePatch("MIC", "SPK", handle, uid)
    \/ \E handle \in DOMAIN mAudioPatches, uid \in AppUids \cup {mUidCached} :
           ReleaseAudioPatch(handle, uid)

SpecRelease == InitOut /\ [][NextRelease]_vars

\* the streams whose patch handle is h
HoldersOf(T, h) ==
    {o \in DOMAIN T.outs : T.outs[o].patch = h} \cup {i \in DOMAIN T.ins : T.ins[i].patch = h}

\* releaseAudioPatch(h) without a patch h: an error and the state as before
ReleaseFailsFast ==
    \A h \in (1..MaxPatchHandle) \ DOMAIN mAudioPatches, uid \in AppUids \cup {mUidCached} :
        LET T == releaseAudioPatch(Here, h, uid)
        IN /\ T.status # NO_ERROR
           /\ [T EXCEPT !.status = Here.status] = Here

NumSourceClients == 2
SourcePorts == (NumTrackClients + 1)..(NumTrackClients + NumSourceClients)
SourceStreams == {"MUSIC", "TTS"}

StartAudioSource(portId, device, stream, uid) ==
    /\ portId \notin DOMAIN mAudioSources
    /\ \E oracle \in {<< >>, <<FALSE>>} :
           Commit(startAudioSource(Cur(oracle), device, stream, portId, uid),
                  "startAudioSource", 0, {})

StopAudioSource(portId) ==
    Commit(stopAudioSource(Cur(<< >>), portId), "stopAudioSource", 0, {})

NextSource ==
    \/ \E p \in SourcePorts, stream \in SourceStreams, uid \in AppUids :
           StartAudioSource(p, "MIC", stream, uid)
    \/ \E p \in DOMAIN mAudioSources : StopAudioSource(p)
    \/ \E p \in 1..NumTrackClients : StartOutput(p)
    \/ \E p \in 1..NumTrackClients : StopOutput(p)
    \/ DrainElapsed

SpecSource == InitOut /\ [][NextSource]_vars

\* startAudioSource failed because the transport refused the patch or because
\* startSource, run after the transport made the patch, refused the source
SourceStartFailed(T) ==
    /\ T.status # NO_ERROR
    /\ \E n \in 1..Len(T.calls) : T.calls[n].f = "createAudioPatch"

\* the number of calls f on output o in a trace
CountCalls(calls, f, o) ==
    Cardinality({n \in 1..Len(calls) : calls[n].f = f /\ calls[n].io = o})

\* C19: when startAudioSource fails on the transport's createAudioPatch or on
\* startSource, the source is in no registry, no patch of it is registered, the
\* transport holds no patch made for it, and every output has the active
\* clients and as many starts as stops as before the call
C19_FailedSourceRolledBack ==
    \A p \in SourcePorts \ DOMAIN mAudioSources, stream \in SourceStreams,
       uid \in AppUids, oracle \in {<< >>, <<FALSE>>} :
        LET T == startAudioSource(Cur(oracle), "MIC", stream, p, uid)
        IN SourceStartFailed(T)
           => /\ p \notin DOMAIN T.sources
              /\ DOMAIN T.patches = DOMAIN mAudioPatches
              /\ T.af.live = af.live
              /\ \A o \in DOMAIN mOutputs :
                     /\ \A s \in StreamSet :
                            streamActiveCount(T, o, s) = streamActiveCount(Here, o, s)
                     /\ CountCalls(T.calls, "start", o) = CountCalls(T.calls, "stop", o)

\* ------------------------------------------------------- device connection
\* the transport refused an open in the trace, or opened another configuration
\* than the one requested
OpenRefused(calls) ==
    IF \E n \in 1..Len(calls) : calls[n].f = "open" /\ calls[n].outcome # "ok"
    THEN {"openRefused"} ELSE {}

ConnectionStates == {AVAILABLE, UNAVAILABLE}

\* a device is plugged or unplugged; the transport opens or refuses the streams
\* that checkOutputsForDevice / checkInputsForDevice ask for
SetDeviceConnectionState(device, state) ==
    \E opens \in {<< >>, <<"fail">>} :
        \E T \in {setDeviceConnectionState(CurOpen(opens), device, state)} :
            Commit(T, "setDeviceConnectionState", 0, OpenRefused(T.calls))

NextDevice ==
    \/ \E device \in RemovableOutDevices \cup RemovableInDevices,
          state \in ConnectionStates : SetDeviceConnectionState(device, state)
    \/ \E p \in 1..NumTrackClients : StartOutput(p)
    \/ \E p \in 1..NumTrackClients : StopOutput(p)
    \/ \E p \in 1..NumPatchClients : GetInputForAttr(p)

SpecDevice == InitOut /\ [][NextDevice]_vars

\* the connection requests that the state rejects
AlreadyInState(device, state) ==
    IF state = AVAILABLE
    THEN device \in mAvailableOutputDevices \cup mAvailableInputDevices
    ELSE device \notin mAvailableOutputDevices \cup mAvailableInputDevices

\* C20: connecting a connected device and disconnecting a device that is not
\* connected return an error and leave the available devices, the open streams,
\* the patches, the routing and the port generation as they were
C20_RejectedConnectionChangesNothing ==
    \A device \in RemovableOutDevices \cup RemovableInDevices, state \in ConnectionStates :
        AlreadyInState(device, state)
        => LET T == setDeviceConnectionState(Here, device, state)
           IN /\ T.status # NO_ERROR
              /\ T.availOut = mAvailableOutputDevices
              /\ T.availIn = mAvailableInputDevices
              /\ T.outs = mOutputs
              /\ T.ins = mInputs
              /\ T.patches = mAudioPatches
              /\ T.cache = mDeviceForStrategy
              /\ T.gen = Here.gen

\* ------------------------------------------------------- direct outputs
NumDirectClients == 2
DirectPorts ==
    (NumTrackClients + NumSourceClients + 1)
        ..(NumTrackClients + NumSourceClients + NumDirectClients)
DirectSessions == {1, 2}
\* the configurations asked for: a sampling rate, a format and a channel mask
Configs == {"48k", "96k"}

\* getOutputForDevice: the flags after "force direct flag if offload flag is
\* set", the TTS flag and the VoIP flags; no deep buffer property is set
outputFlags(stream, flags, pcm) ==
    LET f1 == IF flags \cap {"COMPRESS_OFFLOAD", "HW_AV_SYNC"} # {}
              THEN flags \cup {"DIRECT"} ELSE flags
        f2 == IF stream # "MUSIC" THEN f1 \ {"DEEP_BUFFER"} ELSE f1
    IN IF stream = "TTS" THEN {"TTS"}
       ELSE IF stream = "VOICE_CALL" /\ pcm /\ "INCALL_MUSIC" \notin f2
       THEN {"VOIP_RX", "DIRECT"}
       ELSE f2

\* getProfileForDirectOutput(device, ..., flags): the first compatible profile
\* with a supported device available, an offload profile before the others
getProfileForDirectOutput(S, device, flags) ==
    LET relevant == (flags \cap {"HW_AV_SYNC", "COMPRESS_OFFLOAD", "VOIP_RX"}) \cup {"DIRECT"}
        compatible == {p \in OutputIds :
                           /\ device # {} /\ device \subseteq supportedDevices(p)
                           /\ relevant \subseteq OutputProfile(p).flags
                           /\ supportedDevices(p) \cap S.availOut # {}}
        offload == {p \in compatible : "COMPRESS_OFFLOAD" \in OutputProfile(p).flags}
    IN IF compatible = {} THEN NONE
       ELSE IF offload # {} THEN SetToSeq(offload)[1]
       ELSE SetToSeq(compatible)[1]

\* getOutputForDevice, non_direct_output: the io handle is left in S.ret and
\* *flags in S.flags; the linear PCM format of the requests is 16 bits
nonDirectOutput(S, device, flags, pcm) ==
    IF flags \cap {"HW_AV_SYNC", "MMAP_NOIRQ"} # {} THEN [S EXCEPT !.ret = NONE]
    ELSE IF pcm
    THEN [S EXCEPT !.ret = selectOutput(OutputProfiles,
                                        getOutputsForDevice(device, DOMAIN S.outs),
                                        flags \ {"DIRECT"}, "PCM_16"),
                   !.flags = flags \ {"DIRECT"}]
    ELSE [S EXCEPT !.ret = NONE]

\* getOutputForDevice after outputDesc->open: "only accept an output with the
\* requested parameters"; exact tells whether the configuration that the
\* transport opened is the one requested
openedOutputFor(S, device, session, config, flags, pcm, exact) ==
    IF S.status # NO_ERROR \/ ~exact
    THEN The({IF pcm THEN nonDirectOutput(T, device, flags, pcm)
              ELSE [T EXCEPT !.ret = NONE] :
              T \in {IF S.ret # NONE THEN afClose(S, S.ret) ELSE S}})
    ELSE The({[Log(rememberOutputs(T), [f |-> "onAudioPortListUpdate"])
                  EXCEPT !.ret = S.ret] :
              T \in {addOutput(S, S.ret,
                               [newOutput(device) EXCEPT !.mDirectOpenCount = 1,
                                                         !.mDirectClientSession = session,
                                                         !.config = config])}})

\* getOutputForDevice before the open: "MSD patch may be using the only output
\* stream that can service this request. Release MSD patch to prioritize this
\* request over any active output on MSD."
releaseMsdPatches(S, device) ==
    LET msdPatches == SetToSeq(getMsdPatches(S))
    IN ForEach(S, 1, Len(msdPatches),
               LAMBDA T, n :
                   IF T.patches[msdPatches[n]].mPatch.sinks \cap device # {}
                   THEN releaseAudioPatch(T, msdPatches[n], mUidCached)
                   ELSE T)

\* getOutputForDevice(device, session, stream, config, flags): pcm tells
\* whether the format of the configuration is linear PCM; no effect is enabled
getOutputForDevice(S0, device, session, stream, config, requested, pcm) ==
    LET flags == outputFlags(stream, requested, pcm)
        S == [S0 EXCEPT !.flags = flags]
        profile == getProfileForDirectOutput(S, device, flags)
    IN IF "DIRECT" \notin flags /\ pcm THEN nonDirectOutput(S, device, flags, pcm)
       ELSE IF profile = NONE THEN nonDirectOutput(S, device, flags, pcm)
       ELSE IF profile \in DOMAIN S.outs /\ config = S.outs[profile].config
               /\ session = S.outs[profile].mDirectClientSession
       THEN [S EXCEPT !.outs[profile].mDirectOpenCount = @ + 1, !.ret = profile]
       ELSE IF ~canOpenNewOutput(S, profile) THEN nonDirectOutput(S, device, flags, pcm)
       ELSE openedOutputFor(afOpenOutput(releaseMsdPatches(S, device), profile), device,
                            session, config, flags, pcm,
                            S.opens = << >> \/ Head(S.opens) = "ok")

\* getOutputForAttr, "if (msdDevice != AUDIO_DEVICE_NONE)": the output of the
\* MSD device is kept when the MSD patch to the device is set
outputForMsd(S, device, session, stream, config, requested, pcm) ==
    IF getMsdAudioOutDeviceTypes(S) = {} THEN [S EXCEPT !.ret = NONE]
    ELSE The({IF T.ret = NONE THEN T
              ELSE The({IF P.status = NO_ERROR THEN [P EXCEPT !.ret = T.ret]
                        ELSE [P EXCEPT !.ret = NONE] :
                        P \in {setMsdPatch(T, device)}}) :
              T \in {getOutputForDevice(S, getMsdAudioOutDeviceTypes(S), session, stream,
                                        config, requested, pcm)}})

\* getOutputForAttr(attr, output, session, stream, uid, config, flags,
\* selectedDeviceId, portId) without an explicit route or a policy mix: S.port
\* is *portId, portId the id that AudioPort::getNextUniqueId() gives, and a
\* stream outside the stream types stands for invalid attributes or an invalid
\* stream type
getOutputForAttr(S, portId, stream, session, config, requested, pcm) ==
    IF S.port # NONE THEN [S EXCEPT !.status = INVALID_OPERATION]
    ELSE IF stream \notin StreamSet THEN [S EXCEPT !.status = BAD_VALUE]
    ELSE
    LET device == getDeviceForStrategy(S, getStrategy(stream), FALSE)
    IN The({IF T.ret = NONE THEN [T EXCEPT !.status = INVALID_OPERATION]
            ELSE [T EXCEPT !.tracks = addKey(@, portId,
                                             [output |-> T.ret, stream |-> stream,
                                              pref |-> NoDevice, active |-> FALSE]),
                           !.port = portId,
                           !.status = NO_ERROR] :
            T \in {The({IF M.ret # NONE THEN M
                        ELSE getOutputForDevice(M, device, session, stream, config,
                                                M.flags, pcm) :
                        M \in {outputForMsd([S EXCEPT !.flags = requested], device, session,
                                            stream, config, requested, pcm)}})}})

\* a faulty release that closes a direct output whatever its open count
releaseOutputEager(S, portId) ==
    IF portId \notin DOMAIN S.tracks \/ S.tracks[portId].output \notin DOMAIN S.outs THEN S
    ELSE IF "DIRECT" \in OutputProfile(S.tracks[portId].output).flags
    THEN closeOutput(S, S.tracks[portId].output)
    ELSE [S EXCEPT !.tracks = removeKey(@, portId)]

\* a faulty release that closes an output that is not direct with its last client
releaseOutputClosing(S, portId) ==
    IF portId \notin DOMAIN S.tracks \/ S.tracks[portId].output \notin DOMAIN S.outs THEN S
    ELSE closeOutput([S EXCEPT !.tracks = removeKey(@, portId)], S.tracks[portId].output)

\* releaseOutput(portId): mOutputs.getOutputForClient finds no output for a
\* client that is not attached; a direct output with the client is closed when
\* its open count falls to zero, and the client is removed from the descriptor
releaseOutput(S, portId) ==
    IF portId \notin DOMAIN S.tracks \/ S.tracks[portId].output \notin DOMAIN S.outs THEN S
    ELSE LET output == S.tracks[portId].output
         IN IF "DIRECT" \in OutputProfile(output).flags
            THEN IF S.outs[output].mDirectOpenCount <= 0 THEN S
                 ELSE IF S.outs[output].mDirectOpenCount = 1
                 THEN The({[T EXCEPT !.tracks = removeKey(@, portId)] :
                           T \in {Log(closeOutput(
                                          [S EXCEPT !.outs[output].mDirectOpenCount = 0],
                                          output),
                                      [f |-> "onAudioPortListUpdate"])}})
                 ELSE [S EXCEPT !.outs[output].mDirectOpenCount = @ - 1,
                                !.tracks = removeKey(@, portId)]
            ELSE [S EXCEPT !.tracks = removeKey(@, portId)]

\* ------------------------------------------------------- opening streams
OpenOutcomes == {<< >>, <<"fail">>, <<"other">>}

\* a client asks for an output; the transport opens the direct output as it was
\* requested, opens it with another configuration, or refuses
GetOutputForAttr(portId, session, config, requested, pcm) ==
    /\ portId \notin DOMAIN tracks
    /\ \E opens \in OpenOutcomes :
           \E T \in {getOutputForAttr(CurOpen(opens), portId, "MUSIC", session,
                                      config, requested, pcm)} :
               Commit(T, "getOutputForAttr", 0, OpenRefused(T.calls))

\* a client that is not playing releases its output
ReleaseOutput(portId) ==
    /\ ~tracks[portId].active
    /\ Commit(releaseOutput(Cur(<< >>), portId), "releaseOutput", 0, {})

\* a client asks for an input, with the same three answers of the transport
GetInputForAttrOpening(portId) ==
    /\ portId \notin DOMAIN records
    /\ \E opens \in OpenOutcomes :
           \E T \in {getInputForAttr(CurOpen(opens), portId, RecordAttr(portId))} :
               Commit(T, "getInputForAttr", 0, OpenRefused(T.calls))

NextOpen ==
    \/ \E device \in RemovableOutDevices \cup RemovableInDevices,
          state \in ConnectionStates : SetDeviceConnectionState(device, state)
    \/ \E p \in DirectPorts, session \in DirectSessions, pcm \in BOOLEAN :
           GetOutputForAttr(p, session, "48k", {"DIRECT"}, pcm)
    \/ \E p \in 1..NumPatchClients : GetInputForAttrOpening(p)
    \/ \E p \in DOMAIN records : ReleaseInput(p)

SpecOpen == InitOut /\ [][NextOpen]_vars

\* the io handles that a trace shows the transport refusing or opening with
\* another configuration than requested
RefusedOpens(calls) ==
    {calls[n].io : n \in {m \in 1..Len(calls) :
                              calls[m].f = "open" /\ calls[m].outcome # "ok"}}

\* no stream of the io handles is registered or open on the transport
NotRegistered(T, ios) ==
    ios \cap (DOMAIN T.outs \cup DOMAIN T.ins \cup T.af.ios) = {}

\* C18: every stream descriptor in the output or input registry is open on the
\* transport and the transport has no other stream open; whenever the
\* transport's open fails in getOutputForDevice, getInputForDevice,
\* checkOutputsForDevice or checkInputsForDevice, or opens another configuration
\* than getOutputForDevice or getInputForDevice requested, no descriptor is
\* registered for the attempt and the handle that was opened is closed.
C18_RegisteredStreamsAreOpen ==
    /\ af.ios = DOMAIN mOutputs \cup DOMAIN mInputs
    /\ \A p \in DirectPorts \ DOMAIN tracks, session \in DirectSessions,
          config \in Configs, pcm \in BOOLEAN, opens \in OpenOutcomes :
           LET T == getOutputForAttr(CurOpen(opens), p, "MUSIC", session, config,
                                     {"DIRECT"}, pcm)
           IN NotRegistered(T, RefusedOpens(T.calls))
    /\ \A p \in (1..NumPatchClients) \ DOMAIN records, opens \in OpenOutcomes :
           LET T == getInputForAttr(CurOpen(opens), p, RecordAttr(p))
           IN NotRegistered(T, RefusedOpens(T.calls))
    /\ \A device \in RemovableOutDevices \cup RemovableInDevices,
          state \in ConnectionStates :
           LET T == setDeviceConnectionState(CurOpen(<<"fail">>), device, state)
           IN NotRegistered(T, RefusedOpens(T.calls))

\* a request has just been refused by the transport, or answered with another
\* configuration, and the streams that are registered are the ones open
C18_Witness ==
    /\ "openRefused" \in lastOp.flags
    /\ af.ios = DOMAIN mOutputs \cup DOMAIN mInputs

\* ------------------------------------------------------- start and stop again
NextStartStop ==
    \/ \E p \in DOMAIN tracks : StartOutput(p)
    \/ \E p \in DOMAIN tracks : StopOutput(p)
    \/ DrainElapsed
    \/ \E p \in 1..NumPatchClients : GetInputForAttr(p)
    \/ \E p \in DOMAIN records : StartInput(p, FALSE, FALSE)
    \/ \E p \in DOMAIN records : StopInput(p)

SpecStartStop == InitOut /\ [][NextStartStop]_vars

\* the active clients, the beacon counts, the mute counters and devices of the
\* streams, and the patches are in T as they are in the manager
SameStreams(T) ==
    /\ T.tracks = tracks /\ T.recs = records
    /\ T.beacon = beacon
    /\ T.outs = mOutputs /\ T.ins = mInputs
    /\ T.patches = mAudioPatches

\* C21: starting a playback or capture client that is started, or stopping one
\* that is stopped, returns an error and leaves the active counts, the beacon
\* mute reference counts, the mute counters, the devices and the patches as
\* they were
C21_RedundantStartStopRejected ==
    /\ \A p \in DOMAIN tracks :
           LET T == IF tracks[p].active THEN startOutput(Here, p) ELSE stopOutput(Here, p)
           IN T.status # NO_ERROR /\ SameStreams(T)
    /\ \A p \in DOMAIN records :
           LET T == IF records[p].active THEN startInput(Here, p, FALSE, FALSE)
                    ELSE stopInput(Here, p)
           IN T.status # NO_ERROR /\ SameStreams(T)

\* ------------------------------------------------------- port generation
\* the entry point that left T opened or closed a stream, or added a patch to
\* the patch registry or removed one from it
StreamsOrPatchesChanged(T) ==
    \/ DOMAIN T.outs # DOMAIN mOutputs
    \/ DOMAIN T.ins # DOMAIN mInputs
    \/ DOMAIN T.patches # DOMAIN mAudioPatches

\* the port generation is not lower in T than at the start of the entry point,
\* and it is higher when the entry point changed the streams or the patches
GenerationFollows(T) ==
    /\ T.gen >= Here.gen
    /\ StreamsOrPatchesChanged(T) => T.gen > Here.gen

\* C22: the port generation counter never decreases, and it is strictly greater
\* after an operation that opens or closes an output or input stream or that
\* installs or releases a patch than it was before the operation
C22_GenerationGrows ==
    /\ \A p \in DOMAIN tracks :
           /\ GenerationFollows(startOutput(Here, p))
           /\ GenerationFollows(stopOutput(Here, p))
    /\ \A p \in SourcePorts \ DOMAIN mAudioSources, stream \in SourceStreams,
          uid \in AppUids :
           GenerationFollows(startAudioSource(Here, "MIC", stream, p, uid))
    /\ \A p \in DOMAIN mAudioSources : GenerationFollows(stopAudioSource(Here, p))

\* --------------------------------------------- call routed on the primary
\* setPhoneState(IN_CALL) up to its call of updateCallRouting: the state it
\* passes, after checkForDeviceAndOutputChanges and the mute of the media and
\* sonification strategies
CallBegins ==
    The({muteForCall(S, SetToSeq(DOMAIN mOutputs)) :
         S \in {checkForDeviceAndOutputChanges([Here EXCEPT !.phone = "IN_CALL"])}})

\* the delay setPhoneState passes to updateCallRouting
CallDelayMs ==
    2 * maxLatencyOf({o \in DOMAIN mOutputs :
                          isStrategyActive(CallBegins, o, "MEDIA")
                          \/ isStrategyActive(CallBegins, o, "SONIFICATION")})

\* the RX device setPhoneState selects for the call
CallRxDevice == getNewOutputDevice(CallBegins, mPrimaryOutput, FALSE)

\* the RX device is reachable on the primary module
RxOnPrimary ==
    supportedDevices(mPrimaryOutput) \cap CallBegins.availOut \cap CallRxDevice # {}

\* the trace shows the transport asked for a telephony RX patch
RxPatchAsked(calls) ==
    \E n \in 1..Len(calls) : calls[n].f = "createAudioPatch" /\ calls[n].patch.kind = "rx"

\* an output sharing a device with the primary output is active
SharingOutputActive(S) ==
    \E o \in DOMAIN S.outs :
        supportedDevices(o) \cap supportedDevices(mPrimaryOutput) # {} /\ isActive(S, o)

CallPatchHandles ==
    (IF mCallRxPatch.on THEN {mCallRxPatch.af} ELSE {})
        \cup (IF mCallTxPatch.on THEN {mCallTxPatch.af} ELSE {})

\* the position in a trace of the first call f, or past its end
FirstCall(calls, f) ==
    IF \E n \in 1..Len(calls) : calls[n].f = f
    THEN CHOOSE n \in 1..Len(calls) :
             calls[n].f = f /\ \A m \in 1..(n - 1) : calls[m].f # f
    ELSE Len(calls) + 1

\* the trace releases every telephony patch held on entry before it creates a
\* patch, and none of them is left on the transport
ReleasedFirst(T) ==
    /\ \A h \in CallPatchHandles :
           \E n \in 1..(FirstCall(T.calls, "createAudioPatch") - 1) :
               T.calls[n].f = "releaseAudioPatch" /\ T.calls[n].handle = h
    /\ CallPatchHandles \cap T.af.live = {}

\* C24: a telephony patch exists only while the phone state is IN_CALL; every
\* updateCallRouting run releases the RX and the TX patch it finds on the
\* transport before creating one; and setPhoneState leaving IN_CALL releases
\* both and leaves both references empty
C24_CallPatchesTogether ==
    /\ CallPatchHandles # {} => phoneState = "IN_CALL"
    /\ phoneState = "IN_CALL" =>
           /\ \A d \in mAvailableOutputDevices, delayMs \in {0, TOUCH_SOUND_FIXED_DELAY_MS} :
                  ReleasedFirst(updateCallRouting(Here, {d}, delayMs))
           /\ \A state \in PhoneStates \ {"IN_CALL"} :
                  LET T == setPhoneState(Here, state)
                  IN /\ ~T.callRx.on /\ ~T.callTx.on
                     /\ CallPatchHandles \cap T.af.live = {}

\* a call holding both telephony patches, which updateCallRouting releases and
\* rebuilds
C24_Witness ==
    /\ phoneState = "IN_CALL" /\ mCallRxPatch.on /\ mCallTxPatch.on
    /\ LET T == updateCallRouting(Here, getNewOutputDevice(Here, mPrimaryOutput, TRUE), 0)
       IN /\ T.callRx.on /\ T.callRx.af # mCallRxPatch.af
          /\ T.callTx.on /\ T.callTx.af # mCallTxPatch.af

\* ------------------------------------------------ connecting an output device
\* an open output of T can be routed to the device
Reachable(T, device) == \E o \in DOMAIN T.outs : device \in supportedDevices(o)

\* the trace shows a direct output that reaches the device opened and then
\* closed again
QueriedAndClosed(T, device) ==
    \E p \in OutputIds, n \in 1..Len(T.calls), m \in 1..Len(T.calls) :
        /\ OutputProfile(p).direct /\ device \in supportedDevices(p)
        /\ n < m /\ p \notin DOMAIN T.outs
        /\ T.calls[n].f = "open" /\ T.calls[n].io = p /\ T.calls[n].outcome # "fail"
        /\ T.calls[m].f = "close" /\ T.calls[m].io = p

\* the outcomes of connecting a device that is not connected
Connecting(device, opens) == setDeviceConnectionState(CurOpen(opens), device, AVAILABLE)

\* C25 as stated: connecting a disconnected output device either succeeds,
\* with the device available and an open output that reaches it, or fails, with
\* the device not available
C25_ConnectedDeviceReachable ==
    \A device \in RemovableOutDevices \ mAvailableOutputDevices, opens \in OpenOutcomes :
        LET T == Connecting(device, opens)
        IN IF T.status = NO_ERROR
           THEN device \in T.availOut /\ Reachable(T, device)
           ELSE device \notin T.availOut

\* C25: connecting a disconnected output device either succeeds, with the
\* device available and an open output that reaches it unless the output that
\* reaches it is a direct output that was opened for the query and closed
\* again, or fails, with the device not available
C25_ConnectedDeviceReachableOrQueried ==
    \A device \in RemovableOutDevices \ mAvailableOutputDevices, opens \in OpenOutcomes :
        LET T == Connecting(device, opens)
        IN IF T.status = NO_ERROR
           THEN device \in T.availOut
                /\ (Reachable(T, device) \/ QueriedAndClosed(T, device))
           ELSE device \notin T.availOut

\* a device is disconnected whose connection succeeds with an open output that
\* reaches it, and another whose connection fails when the transport refuses to
\* open the output and succeeds with the direct output closed again otherwise
C25_Witness ==
    \E device \in RemovableOutDevices \ mAvailableOutputDevices :
        /\ Connecting(device, << >>).status = NO_ERROR
        /\ Reachable(Connecting(device, << >>), device)
        /\ \E other \in RemovableOutDevices \ mAvailableOutputDevices :
               /\ Connecting(other, <<"fail">>).status # NO_ERROR
               /\ Connecting(other, << >>).status = NO_ERROR
               /\ QueriedAndClosed(Connecting(other, << >>), other)

\* --------------------------------------------- disconnecting an output device
\* output devices come and go around a direct client and the playback clients
\* of the primary output
DisconnectStarters == {2} \cup DirectPorts

NextDisconnect ==
    \/ \E device \in RemovableOutDevices, state \in ConnectionStates :
           SetDeviceConnectionState(device, state)
    \/ GetOutputForAttr(NumTrackClients + NumSourceClients + 1, 1, "48k", {"DIRECT"}, FALSE)
    \/ \E p \in DOMAIN tracks \cap DisconnectStarters : StartOutput(p)
    \/ \E p \in DOMAIN tracks \cap DisconnectStarters : StopOutput(p)

SpecDisconnect == InitOut /\ [][NextDisconnect]_vars

\* the outcome of disconnecting a connected device
Disconnecting(device) == setDeviceConnectionState(CurOpen(<< >>), device, UNAVAILABLE)

\* none of the output's devices is available once the device is gone
BackedOnlyBy(o, device) ==
    supportedDevices(o) \cap (mAvailableOutputDevices \ {device}) = {}

\* the devices of the highest-priority active strategy of an output, none when
\* no strategy is active
StrategyDevice(T, o) ==
    IF getNewOutputDeviceStrategy(T, o) = STRATEGY_NONE THEN {}
    ELSE getDeviceForStrategy(T, getNewOutputDeviceStrategy(T, o), TRUE)

\* the outputs backed only by the device are closed, on the transport too, and
\* gone from the registry with their patch
BackedOutputsClosed(T, device) ==
    \A o \in DOMAIN mOutputs :
        BackedOnlyBy(o, device) =>
            /\ o \notin DOMAIN T.outs /\ o \notin T.af.ios
            /\ mOutputs[o].patch \notin DOMAIN T.patches

NextDirect ==
    \/ \E p \in DirectPorts, session \in DirectSessions, config \in Configs, pcm \in BOOLEAN :
           GetOutputForAttr(p, session, config, {"DIRECT"}, pcm)
    \/ \E p \in DOMAIN tracks : ReleaseOutput(p)
    \/ \E device \in RemovableOutDevices, state \in ConnectionStates :
           SetDeviceConnectionState(device, state)

SpecDirect == InitOut /\ [][NextDirect]_vars

\* the profile getOutputForDevice finds for a direct request of the media stream
DirectProfile ==
    getProfileForDirectOutput(Here, getDeviceForStrategy(Here, "MEDIA", FALSE), {"DIRECT"})

\* the open output of that profile was opened for the session with the
\* configuration
MatchesOpen(session, config) ==
    /\ DirectProfile \in DOMAIN mOutputs
    /\ mOutputs[DirectProfile].mDirectClientSession = session
    /\ mOutputs[DirectProfile].config = config

\* the trace asks the transport to open a stream
OpenAsked(calls) == \E n \in 1..Len(calls) : calls[n].f = "open"

\* the open direct outputs
DirectOutputs == {o \in DOMAIN mOutputs : "DIRECT" \in OutputProfile(o).flags}

\* a direct request that matches an open direct output reuses it, with one more
\* in its open count and no stream opened; any other request opens a stream only
\* when the profile can open a new one
ReuseOrOpen ==
    \A p \in DirectPorts \ DOMAIN tracks, session \in DirectSessions, config \in Configs,
       pcm \in BOOLEAN, opens \in OpenOutcomes :
        LET T == getOutputForAttr(CurOpen(opens), p, "MUSIC", session, config,
                                  {"DIRECT"}, pcm)
        IN IF MatchesOpen(session, config)
           THEN /\ T.status = NO_ERROR /\ T.tracks[p].output = DirectProfile
                /\ T.outs[DirectProfile].mDirectOpenCount
                       = mOutputs[DirectProfile].mDirectOpenCount + 1
                /\ ~OpenAsked(T.calls)
           ELSE OpenAsked(T.calls) =>
                    DirectProfile # NONE /\ canOpenNewOutput(Here, DirectProfile)

\* releaseOutput closes the direct output of the client exactly when it brings
\* the open count to zero
ReleaseClosesAtZero ==
    \A p \in DOMAIN tracks :
        LET o == tracks[p].output
            T == releaseOutput(Here, p)
        IN o \in DirectOutputs =>
               /\ mOutputs[o].mDirectOpenCount > 0
               /\ o \in DOMAIN T.outs <=> mOutputs[o].mDirectOpenCount > 1
               /\ o \in DOMAIN T.outs =>
                      T.outs[o].mDirectOpenCount = mOutputs[o].mDirectOpenCount - 1

\* C27 as stated: a matching direct request reuses the open direct output and
\* counts one more without opening a stream, another request opens one only if
\* the profile allows it, and a direct output is closed exactly when
\* releaseOutput brings its open count to zero: no other request, and no
\* connection or disconnection of a device, closes one whose count is positive
C27_DirectReuseCounted ==
    /\ ReuseOrOpen
    /\ ReleaseClosesAtZero
    /\ \A o \in DirectOutputs :
           /\ \A p \in DirectPorts \ DOMAIN tracks, session \in DirectSessions,
                 config \in Configs, pcm \in BOOLEAN, opens \in OpenOutcomes :
                  o \in DOMAIN getOutputForAttr(CurOpen(opens), p, "MUSIC", session, config,
                                                {"DIRECT"}, pcm).outs
           /\ \A device \in RemovableOutDevices, state \in ConnectionStates :
                  o \in DOMAIN setDeviceConnectionState(CurOpen(<< >>), device, state).outs

\* C27: a matching direct request reuses the open direct output and counts one
\* more without opening a stream, another request opens one only if the profile
\* allows it, and releaseOutput closes a direct output exactly when it brings
\* its open count to zero; a direct output whose count is positive is otherwise
\* closed only by the disconnection of the last device that it supports
C27_DirectReuseCountedWhileBacked ==
    /\ ReuseOrOpen
    /\ ReleaseClosesAtZero
    /\ \A o \in DirectOutputs :
           /\ \A p \in DirectPorts \ DOMAIN tracks, session \in DirectSessions,
                 config \in Configs, pcm \in BOOLEAN, opens \in OpenOutcomes :
                  o \in DOMAIN getOutputForAttr(CurOpen(opens), p, "MUSIC", session, config,
                                                {"DIRECT"}, pcm).outs
           /\ \A device \in RemovableOutDevices, state \in ConnectionStates :
                  LET T == setDeviceConnectionState(CurOpen(<< >>), device, state)
                  IN o \notin DOMAIN T.outs =>
                         /\ state = UNAVAILABLE /\ T.status = NO_ERROR
                         /\ supportedDevices(o) \cap T.availOut = {}

\* a direct output that a second client of the session has reused: releasing
\* one of the two clients leaves it open
C27_Witness ==
    \E o \in DirectOutputs :
        /\ mOutputs[o].mDirectOpenCount = 2
        /\ o = DirectProfile
        /\ \E p \in DOMAIN tracks :
               tracks[p].output = o /\ o \in DOMAIN releaseOutput(Here, p).outs

\* ------------------------------------------------------ selecting an output
\* selectOutput is asked with every list of up to MaxCandidates candidates,
\* whose handles are 1, 2, ..., once
MaxCandidates == 3
CandidateProfiles ==
    [flags : {{"PRIMARY"}, {"FAST"}, {"FAST", "DEEP_BUFFER"}, {"DIRECT", "FAST"}},
     format : {"PCM_16", "PCM_32"}]
RequestFlags == {{}, {"FAST"}, {"FAST", "DEEP_BUFFER"}}
RequestFormats == {AUDIO_FORMAT_INVALID, "PCM_16", "PCM_24", "AAC"}

\* a request for selectOutput that is not yet served
InitSelect ==
    /\ InitManager([p \in 1..NumTrackClients |-> TrackClient(p)])
    /\ \E n \in 0..MaxCandidates :
           \E profiles \in [1..n -> CandidateProfiles], flags \in RequestFlags,
              format \in RequestFormats :
               lastOp = [op |-> "request",
                         arg |-> [profiles |-> profiles, flags |-> flags,
                                  format |-> format, output |-> NONE],
                         status |-> NO_ERROR, conc |-> {}, flags |-> {}]

SelectOutput ==
    /\ lastOp.op = "request"
    /\ lastOp' = [lastOp EXCEPT
                     !.op = "selectOutput",
                     !.arg.output = selectOutput(lastOp.arg.profiles, DOMAIN lastOp.arg.profiles,
                                                 lastOp.arg.flags, lastOp.arg.format)]
    /\ UNCHANGED <<mOutputs, tracks, mInputs, records, mAudioPatches, nextUniqueId,
                   phoneState, forceUse, mDeviceForStrategy, beacon, mLastVoiceVolume,
                   mCallRxPatch, mCallTxPatch, af, unmatched, mAudioSources,
                   mAvailableOutputDevices, mAvailableInputDevices, mVolumeCurves,
                   mA2dpSuspended>>

NextSelect == SelectOutput

SpecSelect == InitSelect /\ [][NextSelect]_vars

\* the number of requested flags that a candidate shares
CommonFlags(arg, o) == Cardinality(arg.profiles[o].flags \cap arg.flags)

\* the output is chosen among the candidates cands in the order of the claim:
\* the most requested flags, among those the best match of the format, then a
\* primary output, then the first output of the list
ChosenAmong(arg, cands) ==
    LET top == {o \in cands : \A q \in cands : CommonFlags(arg, q) <= CommonFlags(arg, o)}
        asked == arg.format # AUDIO_FORMAT_INVALID
    IN IF cands # {} /\ (asked \/ \E o \in cands : CommonFlags(arg, o) > 0)
       THEN /\ arg.output \in top
            /\ asked => \A o \in top :
                            ~isBetterFormatMatch(arg.profiles[o].format,
                                                 arg.profiles[arg.output].format, arg.format)
       ELSE IF \E o \in cands : "PRIMARY" \in arg.profiles[o].flags
       THEN arg.output \in cands /\ "PRIMARY" \in arg.profiles[arg.output].flags
       ELSE arg.output = 1

\* the candidates that the loop of selectOutput looks at: a single candidate is
\* returned as it is, direct outputs are skipped, and so is every output when
\* the format asked for is not linear PCM
Eligible(arg) ==
    IF Len(arg.profiles) = 1 THEN {1}
    ELSE IF arg.format # AUDIO_FORMAT_INVALID /\ ~audio_is_linear_pcm(arg.format) THEN {}
    ELSE {o \in DOMAIN arg.profiles : "DIRECT" \notin arg.profiles[o].flags}

InitMsd ==
    \E I \in {initialize} :
        /\ mOutputs = I.outs
        /\ tracks = [p \in 1..NumTrackClients |-> TrackClient(p)]
        /\ mInputs = << >>
        /\ records = << >>
        /\ mAudioPatches = I.patches
        /\ mAudioSources = I.sources
        /\ mAvailableOutputDevices = I.availOut \cup MsdOutDevices
        /\ mAvailableInputDevices = I.availIn \cup {MsdInDevice}
        /\ nextUniqueId = I.next
        /\ phoneState = "NORMAL"
        /\ forceUse = I.force
        /\ mDeviceForStrategy = I.cache
        /\ beacon = I.beacon
        /\ mLastVoiceVolume = I.lastVoice
        /\ mVolumeCurves = I.index
        /\ mA2dpSuspended = I.suspended
        /\ mCallRxPatch = I.callRx
        /\ mCallTxPatch = I.callTx
        /\ af = I.af
        /\ unmatched = [o \in OutputIds |-> [s \in StreamSet |-> 0]]
        /\ lastOp = [op |-> "", arg |-> 0, status |-> NO_ERROR, conc |-> {}, flags |-> {}]

\* the open count of a direct output stays within this bound
MaxDirectOpenCount == 2

\* the outcomes of the transport's createAudioPatch for the MSD patch
PatchOutcomes == {<< >>, <<FALSE>>}

\* a client asks for an output; the transport opens or refuses the direct output
\* and sets or refuses the MSD patch
GetOutputForAttrMsd(portId, session, config, requested, pcm) ==
    /\ portId \notin DOMAIN tracks
    /\ \E opens \in OpenOutcomes, oracle \in PatchOutcomes :
           \E T \in {getOutputForAttr([Cur(oracle) EXCEPT !.opens = opens], portId, "MUSIC",
                                      session, config, requested, pcm)} :
               /\ \A o \in DOMAIN T.outs : T.outs[o].mDirectOpenCount <= MaxDirectOpenCount
               /\ Commit(T, "getOutputForAttr", 0, OpenRefused(T.calls))

NextMsd ==
    \/ \E p \in DirectPorts, session \in DirectSessions, pcm \in BOOLEAN :
           GetOutputForAttrMsd(p, session, "48k", {"DIRECT"}, pcm)
    \/ \E p \in DOMAIN tracks : ReleaseOutput(p)

SpecMsd == InitMsd /\ [][NextMsd]_vars

\* the streams that can be asked for, and one that is not a stream type
RequestStreams == {"MUSIC", "INVALID"}

\* C29: when getOutputForAttr, entered with a port id that is NONE, fails, no
\* client has been attached, the port id is still NONE, no output has been
\* opened and no direct output has another open count
C29_FailedRequestLeavesNothing ==
    \A p \in DirectPorts \ DOMAIN tracks, stream \in RequestStreams,
       session \in DirectSessions, config \in Configs, requested \in {{}, {"DIRECT"}},
       pcm \in BOOLEAN, opens \in OpenOutcomes, oracle \in PatchOutcomes :
        LET T == getOutputForAttr([Cur(oracle) EXCEPT !.opens = opens], p, stream, session,
                                  config, requested, pcm)
        IN T.status # NO_ERROR =>
               /\ T.tracks = tracks
               /\ T.port = NONE
               /\ DOMAIN T.outs = DOMAIN mOutputs
               /\ \A o \in DOMAIN mOutputs :
                      T.outs[o].mDirectOpenCount = mOutputs[o].mDirectOpenCount

\* ------------------------------------------------ the last client of an output
\* the clients that are the only one attached to an open output that is not
\* direct
LastClients ==
    {p \in DOMAIN tracks :
         /\ tracks[p].output \in DOMAIN mOutputs
         /\ "DIRECT" \notin OutputProfile(tracks[p].output).flags
         /\ \A q \in DOMAIN tracks \ {p} : tracks[q].output # tracks[p].output}

\* C30 as stated: after releaseOutput removes the last attached client of an
\* output that is not direct, the output is closed and no longer in the registry
C30_LastReleaseClosesOutput ==
    \A p \in LastClients :
        LET T == releaseOutput(Here, p)
        IN /\ tracks[p].output \notin DOMAIN T.outs
           /\ tracks[p].output \notin T.af.ios

\* C30: after releaseOutput removes the last attached client of an output that
\* is not direct, the client is detached and the output is as it was, open and
\* in the registry
C30_LastReleaseKeepsOutput ==
    \A p \in LastClients :
        LET T == releaseOutput(Here, p)
        IN /\ p \notin DOMAIN T.tracks
           /\ tracks[p].output \in DOMAIN T.outs
           /\ T.outs[tracks[p].output] = mOutputs[tracks[p].output]
           /\ tracks[p].output \in T.af.ios
           /\ T.calls = << >>

\* the clients of the primary output have all been released and the output is
\* open
C30_Witness ==
    /\ mPrimaryOutput \in DOMAIN mOutputs
    /\ mPrimaryOutput \in af.ios
    /\ \A q \in DOMAIN tracks : tracks[q].output # mPrimaryOutput

\* ------------------------------------------- mute, switch, unmute (C31)
\* the devices setOutputDevice is asked for and the delays of its callers
\* the operations that route the outputs of the playing clients: start and
\* stop, phone state, force use, and the patches a caller puts on an output
NextRoute ==
    \/ \E p \in DOMAIN tracks : StartOutput(p)
    \/ \E p \in DOMAIN tracks : StopOutput(p)
    \/ DrainElapsed
    \/ \E state \in {"NORMAL", "IN_CALL"} : SetPhoneState(state)
    \/ \E config \in {"NONE", "SYSTEM_ENFORCED"} : SetForceUse("SYSTEM", config)
    \/ \E o \in DOMAIN mOutputs, uid \in AppUids, handle \in DOMAIN mAudioPatches :
           CreateOutputPatch(o, "HS", handle, uid)

SpecRoute == InitOut /\ [][NextRoute]_vars

RouteRequests == {{"SPK"}, {"HS"}, {"EAR"}, {"SPK", "HS"}}
RouteDelays == {0, 100}

\* the trace mutes the stream on the output with the delay, unmutes it later
\* with the delay plus 4 times the latency, and asks the transport for a patch
\* only after both
MutedAroundSwitch(calls, o, stream, delayMs) ==
    \E i, j \in 1..Len(calls) :
        /\ i < j
        /\ calls[i].f = "setStreamMute" /\ calls[i].io = o /\ calls[i].stream = stream
        /\ calls[i].on /\ calls[i].delayMs = delayMs
        /\ calls[j].f = "setStreamMute" /\ calls[j].io = o /\ calls[j].stream = stream
        /\ ~calls[j].on /\ calls[j].delayMs = delayMs + latency(o) * LATENCY_MUTE_FACTOR
        /\ \A k \in 1..Len(calls) : calls[k].f = "createAudioPatch" => j < k

\* what the claim asks of a call of setOutputDevice that found the manager in
\* Here and left it in T
MuteSwitchUnmute(T, o, delayMs) ==
    /\ \A i \in 1..Len(Streams) :
           isStrategyActive(Here, o, getStrategy(Streams[i]))
               => MutedAroundSwitch(T.calls, o, Streams[i], delayMs)
    /\ \A p \in DOMAIN mOutputs : T.outs[p].mMuteCount = mOutputs[p].mMuteCount
    /\ T.ret >= 0 /\ T.ret >= latency(o) * 2 - delayMs

\* the call changed the device of an output that is active
DeviceOfActiveChanged(T, o) ==
    isActive(Here, o) /\ T.outs[o].mDevice # mOutputs[o].mDevice

\* C31 as stated: whenever setOutputDevice changes the device of an active
\* output, every stream of an active strategy is muted with the caller's delay
\* and unmuted with that delay plus 4 times the latency before the patch is
\* created, no mute counter changes and the wait returned is at least 2 times
\* the latency minus the delay
C31_MuteSwitchUnmute ==
    \A o \in DOMAIN mOutputs, requested \in RouteRequests, force \in BOOLEAN,
       delayMs \in RouteDelays, requiresMuteCheck \in BOOLEAN :
        LET T == setOutputDevice(Here, o, requested, force, delayMs, requiresMuteCheck)
        IN DeviceOfActiveChanged(T, o) => MuteSwitchUnmute(T, o, delayMs)

\* the mute counters that may change: those of the strategies that
\* checkDeviceMuteStrategies mutes or unmutes on the output for a device
\* combination they are not compatible with
CountersKept(T, o) ==
    \A p \in DOMAIN mOutputs, s \in StreamSet :
        T.outs[o].mStrategyMutedByDevice[getStrategy(s)]
            = mOutputs[o].mStrategyMutedByDevice[getStrategy(s)]
        => T.outs[p].mMuteCount[s] = mOutputs[p].mMuteCount[s]

\* C31, amended: the same when setOutputDevice is asked for the mute check,
\* the mute counters being unchanged for the strategies that the call does not
\* mute or unmute for an incompatible device combination
C31_MuteSwitchUnmuteWhenChecked ==
    \A o \in DOMAIN mOutputs, requested \in RouteRequests, force \in BOOLEAN,
       delayMs \in RouteDelays :
        isActive(Here, o) =>
            \A T \in {setOutputDevice(Here, o, requested, force, delayMs, TRUE)} :
                DeviceOfActiveChanged(T, o)
                => /\ \A i \in 1..Len(Streams) :
                          isStrategyActive(Here, o, getStrategy(Streams[i]))
                              => MutedAroundSwitch(T.calls, o, Streams[i], delayMs)
                   /\ CountersKept(T, o)
                   /\ T.ret >= 0 /\ T.ret >= latency(o) * 2 - delayMs

\* an active output whose device a checked setOutputDevice changes, creating a
\* patch
C31_Witness ==
    \E o \in DOMAIN mOutputs, requested \in RouteRequests :
        LET T == setOutputDevice(Here, o, requested, FALSE, 0, TRUE)
        IN /\ DeviceOfActiveChanged(T, o)
           /\ \E k \in 1..Len(T.calls) : T.calls[k].f = "createAudioPatch"

\* ------------------------------------------------- volume of muted streams
NumVolumeClients == 2

\* the track clients of the volume scenarios
VolumeClient(p) ==
    CASE p = 1 -> [output |-> 1, stream |-> "ENFORCED_AUDIBLE", pref |-> "HS",
                   active |-> FALSE]
      [] p = 2 -> [output |-> 1, stream |-> "VOICE_CALL", pref |-> NoDevice,
                   active |-> FALSE]
      [] OTHER -> [output |-> 1, stream |-> "MUSIC", pref |-> NoDevice, active |-> FALSE]

\* the requests of setStreamVolumeIndex: stream, index, device; the last two
\* are out of range and not an output device
VolumeIndexes == {MaxVolumeIndex}
VolumeRequests ==
    {<<"MUSIC", index, "HS">> : index \in VolumeIndexes}
        \cup {<<stream, index, AUDIO_DEVICE_OUT_DEFAULT_FOR_VOLUME>> :
                 stream \in {"RING", "VOICE_CALL"}, index \in VolumeIndexes}
        \cup {<<"MUSIC", MaxVolumeIndex + 1, "HS">>, <<"MUSIC", 1, "MIC">>}

SetStreamVolumeIndex(stream, index, device) ==
    Commit(setStreamVolumeIndex(Cur(<< >>), stream, index, device),
           "setStreamVolumeIndex", 0, {})

NextVolume ==
    \/ \E p \in DOMAIN tracks : StartOutput(p)
    \/ \E p \in DOMAIN tracks : StopOutput(p)
    \/ \E state \in {"NORMAL", "IN_CALL"} : SetPhoneState(state)
    \/ \E config \in {"NONE", "SYSTEM_ENFORCED"} : SetForceUse("SYSTEM", config)
    \/ \E config \in {"NONE", "BT_SCO"} : SetForceUse("COMMUNICATION", config)
    \/ \E request \in VolumeRequests :
           SetStreamVolumeIndex(request[1], request[2], request[3])

InitVolume == InitWith([p \in 1..NumVolumeClients |-> VolumeClient(p)])

SpecVolume == InitVolume /\ [][NextVolume]_vars

ToZero(calls) ==
    {n \in 1..Len(calls) : /\ calls[n].f = "setStreamMute"
                           /\ ~calls[n].on /\ calls[n].count = 1}

MaxIndexMin == 2
MaxIndexMax == 5
IndexRanges ==
    {range \in [min : 0..MaxIndexMin, max : 1..MaxIndexMax] : range.min < range.max}

\* a request draws the ranges of two streams and an index of the range of the
\* first; the index is rescaled to the second stream and back
InitRescale ==
    /\ InitManager([p \in 1..NumTrackClients |-> TrackClient(p)])
    /\ \E A \in IndexRanges, B \in IndexRanges :
           \E index \in A.min..A.max :
               lastOp = [op |-> "index",
                         arg |-> [ranges |-> ("MUSIC" :> A) @@ ("RING" :> B),
                                  index |-> index, there |-> 0, back |-> 0],
                         status |-> NO_ERROR, conc |-> {}, flags |-> {}]

RescaleThere ==
    /\ lastOp.op = "index"
    /\ lastOp' = [lastOp EXCEPT
                     !.op = "there",
                     !.arg.there = rescaleVolumeIndexIn(lastOp.arg.ranges, lastOp.arg.index,
                                                        "MUSIC", "RING")]
    /\ UNCHANGED <<mOutputs, tracks, mInputs, records, mAudioPatches, nextUniqueId,
                   phoneState, forceUse, mDeviceForStrategy, beacon, mLastVoiceVolume,
                   mCallRxPatch, mCallTxPatch, af, unmatched, mAudioSources,
                   mAvailableOutputDevices, mAvailableInputDevices, mVolumeCurves,
                   mA2dpSuspended>>

RescaleBack ==
    /\ lastOp.op = "there"
    /\ lastOp' = [lastOp EXCEPT
                     !.op = "back",
                     !.arg.back = rescaleVolumeIndexIn(lastOp.arg.ranges, lastOp.arg.there,
                                                       "RING", "MUSIC")]
    /\ UNCHANGED <<mOutputs, tracks, mInputs, records, mAudioPatches, nextUniqueId,
                   phoneState, forceUse, mDeviceForStrategy, beacon, mLastVoiceVolume,
                   mCallRxPatch, mCallTxPatch, af, unmatched, mAudioSources,
                   mAvailableOutputDevices, mAvailableInputDevices, mVolumeCurves,
                   mA2dpSuspended>>

NextRescale == RescaleThere \/ RescaleBack

SpecRescale == InitRescale /\ [][NextRescale]_vars

\* C33: for index ranges of streams A and B that initStreamVolume accepts and
\* every index i of A's range, the index rescaled to B lies in B's range, and
\* rescaled back it is an index r of A's range with r <= i and
\* i - r < (maxA - minA) / (maxB - minB) + 1.
C33_RescaleRoundTrip ==
    LET A == lastOp.arg.ranges["MUSIC"]
        B == lastOp.arg.ranges["RING"]
        i == lastOp.arg.index
        r == lastOp.arg.back
    IN /\ lastOp.op \in {"there", "back"}
          => lastOp.arg.there \in B.min..B.max
       /\ lastOp.op = "back"
          => /\ r \in A.min..A.max
             /\ r <= i
             /\ (i - r - 1) * (B.max - B.min) < A.max - A.min

\* an index that does not come back: the range of B is coarser than that of A
C33_Witness ==
    /\ lastOp.op = "back"
    /\ lastOp.arg.back < lastOp.arg.index
    /\ lastOp.arg.ranges["RING"].min > 0

\* --------------------------------------------- rejected capture requests
\* the conflicts for which startInput rejects a request
ConflictNames == {"CALL", "CAPTURE", "HOTWORD"}

\* C34: a startInput call that is rejected for a capture-concurrency conflict
\* (CALL, CAPTURE or HOTWORD) has stopped or released no client and closed no
\* input: the clients and the inputs are as they were before the call.
C34_RejectedStartChangesNothing ==
    \A p \in DOMAIN records, silenced \in BOOLEAN, staleRead \in BOOLEAN :
        LET T == startInput(Here, p, silenced, staleRead)
        IN (T.status = INVALID_OPERATION /\ T.conc \cap ConflictNames # {})
           => /\ T.recs = records
              /\ T.ins = mInputs

\* ------------------------------------------------ enforced audible clients
\* the streams of the sonification strategy
SonificationStreams == {s \in StreamSet : getStrategy(s) = "SONIFICATION"}

\* the mutes that an output holds on the sonification strategy for its device
\* combination
MutedByDevice(o) == IF mOutputs[o].mStrategyMutedByDevice["SONIFICATION"] THEN 1 ELSE 0

\* C35: once every enforced-audible client has been stopped, the mute that the
\* start of such a client placed on the sonification strategy is removed: the
\* mute counters of the sonification streams hold no more than the mutes of the
\* output's device combination, as before the first such client started.
C35_EnforcedMuteRemoved ==
    (\A p \in DOMAIN tracks : tracks[p].stream = "ENFORCED_AUDIBLE" => ~tracks[p].active)
        => \A o \in DOMAIN mOutputs : \A s \in SonificationStreams :
               mOutputs[o].mMuteCount[s] = MutedByDevice(o)

\* -------------------------------------------------------- beacon mute count
\* the active playback clients of T that do not play the beacon stream
PlayingOthers(T) ==
    {p \in DOMAIN T.tracks : T.tracks[p].active /\ T.tracks[p].stream # "TTS"}

\* the beacon mute count is the number of active clients that are not beacon
\* clients and is not negative, and a muted beacon is muted on every open output
BeaconCounted(T) ==
    /\ T.beacon.muteRef = Cardinality(PlayingOthers(T))
    /\ T.beacon.muteRef >= 0
    /\ T.beacon.muted => \A o \in DOMAIN T.outs : T.outs[o].mMuteCount["TTS"] > 0

\* C36: with no output dedicated to the beacon, after every operation, a
\* stopOutput on a client that is not started included, the beacon mute count
\* equals the number of active playback clients that are not beacon clients,
\* it is not negative, and while the beacon is marked muted the mute counter of
\* the beacon stream is greater than zero on every open output.
C36_BeaconMuteCount ==
    /\ BeaconCounted(Here)
    /\ \A p \in DOMAIN tracks : ~tracks[p].active => BeaconCounted(stopOutput(Here, p))

(***************************************************************************)
(* C37: patch ownership.                                                   *)
(***************************************************************************)
\* the identities that present a patch request: the applications, one more
\* application, and the system's own identity
PatchCallers == AppUids \cup {uid + 1 : uid \in AppUids} \cup {mUidCached}

\* the request was refused and changed nothing in the manager
RefusedUnchanged(T) ==
    /\ T.status = INVALID_OPERATION
    /\ [T EXCEPT !.status = Here.status, !.hnd = Here.hnd] = Here

\* C37: a patch owned by an identity U other than the system's own is
\* modified (createAudioPatch with its handle) or released (releaseAudioPatch)
\* only by a caller presenting U: a request from any other identity returns
\* INVALID_OPERATION and leaves the patches, their owners and the routing
\* unchanged.
C37_OnlyOwnerChangesPatch ==
    \A handle \in DOMAIN mAudioPatches :
        mAudioPatches[handle].mUid # mUidCached =>
            \A uid \in PatchCallers \ {mAudioPatches[handle].mUid} :
                /\ RefusedUnchanged(releaseAudioPatch(Here, handle, uid))
                /\ \A patch \in PatchRequests :
                       RefusedUnchanged(createAudioPatch(Here, patch, handle, uid))

\* an application owns a patch that it may release itself, and the system's
\* identity and another application were refused
C37_Witness ==
    \E handle \in DOMAIN mAudioPatches :
        /\ mAudioPatches[handle].mUid \in AppUids
        /\ releaseAudioPatch(Here, handle, mAudioPatches[handle].mUid).status = NO_ERROR
        /\ \E patch \in PatchRequests :
               createAudioPatch(Here, patch, handle,
                                mAudioPatches[handle].mUid).status = NO_ERROR
        /\ \A uid \in PatchCallers \ AppUids :
               releaseAudioPatch(Here, handle, uid).status = INVALID_OPERATION

(***************************************************************************)
(* C38: the A2DP output is suspended while the SCO link is in use.         *)
(***************************************************************************)
NextA2dp ==
    \/ \E device \in A2dpDevices \cup RemovableInDevices, state \in ConnectionStates :
           SetDeviceConnectionState(device, state)
    \/ \E state \in {"NORMAL", "RINGTONE", "IN_CALL"} : SetPhoneState(state)
    \/ \E usage \in {"COMMUNICATION", "RECORD"}, config \in {"NONE", "BT_SCO"} :
           SetForceUse(usage, config)

SpecA2dp == InitOut /\ [][NextA2dp]_vars

\* the condition under which the A2DP output is to be suspended
A2dpToSuspend(S) ==
    /\ getA2dpOutput(S) # 0
    /\ ~isA2dpOffloadedOnPrimary(S)
    /\ isScoConnected(S)
    /\ scoInUse(S)

\* C38: after every public operation (connection change of an output or input
\* device, phone-state change, force-use change) the A2DP-suspended flag is
\* true exactly when an A2DP output is open and not offloaded on the primary
\* module, a SCO device is connected, and force-use for communication or for
\* record is BT_SCO or the phone state is IN_CALL or RINGTONE.
C38_SuspendedExactlyWhenScoInUse == mA2dpSuspended = A2dpToSuspend(Here)

(***************************************************************************)
(* C39: the output for the global music effects.                           *)
(***************************************************************************)
\* selectOutputForMusicEffects, one round of the while loop over the outputs
\* (a sequence of handles in the order of the sorted vector), whose descriptors
\* are given by their flags and by isStreamActive(AUDIO_STREAM_MUSIC): the last
\* output with a flag is kept for the flag
musicEffectsRound(descs, outputs, activeOnly) ==
    LET kept(flag) ==
            LET with == {n \in 1..Len(outputs) :
                             /\ ~(activeOnly /\ ~descs[outputs[n]].active)
                             /\ flag \in descs[outputs[n]].flags}
            IN IF with = {} THEN NONE
               ELSE outputs[CHOOSE n \in with : \A m \in with : m <= n]
       outputOffloaded == kept("COMPRESS_OFFLOAD")
       outputDeepBuffer == kept("DEEP_BUFFER")
       outputPrimary == kept("PRIMARY")
    IN IF outputOffloaded # NONE THEN outputOffloaded
       ELSE IF outputDeepBuffer # NONE THEN outputDeepBuffer
       ELSE IF outputPrimary # NONE THEN outputPrimary
       ELSE outputs[1]

\* selectOutputForMusicEffects, the while loop: rounds until an output is set,
\* the first round over the outputs with music active
RECURSIVE musicEffectsLoop(_, _, _, _)
musicEffectsLoop(descs, outputs, output, activeOnly) ==
    IF output # NONE THEN output
    ELSE musicEffectsLoop(descs, outputs,
                          musicEffectsRound(descs, outputs, activeOnly), FALSE)

\* selectOutputForMusicEffects() on the outputs that reach the device of the
\* media strategy; effect is mMusicEffectOutput.  The result is the output and
\* the new mMusicEffectOutput, moved when moveEffects was called
selectOutputForMusicEffects(descs, outputs, effect) ==
    IF Len(outputs) = 0 THEN [output |-> NONE, effect |-> effect, moved |-> FALSE]
    ELSE LET output == musicEffectsLoop(descs, outputs, NONE, TRUE)
         IN [output |-> output, effect |-> output, moved |-> output # effect]

\* selectOutputForMusicEffects is asked with every list of up to
\* MaxEffectCandidates outputs, whose handles are 1, 2, ..., once
MaxEffectCandidates == 3
EffectCandidates ==
    [flags : {{}, {"COMPRESS_OFFLOAD"}, {"DEEP_BUFFER"}, {"PRIMARY"}}, active : BOOLEAN]

InitEffects ==
    /\ InitManager([p \in 1..NumTrackClients |-> TrackClient(p)])
    /\ \E n \in 0..MaxEffectCandidates :
           \E descs \in [1..n -> EffectCandidates] :
               lastOp = [op |-> "effects",
                         arg |-> [descs |-> descs, output |-> NONE, effect |-> NONE,
                                  moved |-> FALSE],
                         status |-> NO_ERROR, conc |-> {}, flags |-> {}]

SelectOutputForMusicEffects ==
    /\ lastOp.op \in {"effects", "selectOutputForMusicEffects"}
    /\ \E T \in {selectOutputForMusicEffects(
                     lastOp.arg.descs, [n \in DOMAIN lastOp.arg.descs |-> n],
                     lastOp.arg.effect)} :
           lastOp' = [lastOp EXCEPT !.op = "selectOutputForMusicEffects",
                                    !.arg.output = T.output,
                                    !.arg.effect = T.effect,
                                    !.arg.moved = T.moved]
    /\ UNCHANGED <<mOutputs, tracks, mInputs, records, mAudioPatches, nextUniqueId,
                   phoneState, forceUse, mDeviceForStrategy, beacon, mLastVoiceVolume,
                   mCallRxPatch, mCallTxPatch, af, unmatched, mAudioSources,
                   mAvailableOutputDevices, mAvailableInputDevices, mVolumeCurves,
                   mA2dpSuspended>>

NextEffects == SelectOutputForMusicEffects

SpecEffects == InitEffects /\ [][NextEffects]_vars

\* the output is one of the considered outputs that the priority offloaded,
\* deep-buffer, primary puts first, the first of the list when none of the
\* considered outputs has one of the three flags
ByEffectPriority(descs, considered, output) ==
    LET with(flag) == {o \in considered : flag \in descs[o].flags}
    IN IF with("COMPRESS_OFFLOAD") # {} THEN output \in with("COMPRESS_OFFLOAD")
       ELSE IF with("DEEP_BUFFER") # {} THEN output \in with("DEEP_BUFFER")
       ELSE IF with("PRIMARY") # {} THEN output \in with("PRIMARY")
       ELSE output = 1

\* C39: selectOutputForMusicEffects picks by the priority offloaded, then
\* deep-buffer, then primary, then first in the list; the outputs with music
\* active are considered first, and when no candidate has music active the
\* same priority order is applied to all candidates, so that an offloaded or
\* deep-buffer candidate is chosen over the first in the list.
C39_EffectsOutputByPriority ==
    lastOp.op = "selectOutputForMusicEffects" /\ DOMAIN lastOp.arg.descs # {} =>
        LET descs == lastOp.arg.descs
            active == {o \in DOMAIN descs : descs[o].active}
        IN IF \E o \in active : descs[o].flags # {}
           THEN ByEffectPriority(descs, active, lastOp.arg.output)
           ELSE IF active = {}
           THEN ByEffectPriority(descs, DOMAIN descs, lastOp.arg.output)
           ELSE lastOp.arg.output \in DOMAIN descs

(***************************************************************************)
(* C40: selectOutput and the direct outputs.                               *)
(***************************************************************************)
\* C40: selectOutput never returns a direct output: for every candidate list
\* (a list of one and a list in which no candidate qualifies by flags, format
\* or primary included) the returned handle is NONE or an output without the
\* DIRECT flag.
C40_SelectOutputNeverDirect ==
    lastOp.op = "selectOutput" =>
        \/ lastOp.arg.output = NONE
        \/ "DIRECT" \notin lastOp.arg.profiles[lastOp.arg.output].flags

====
